---- MODULE Spec2Model ----
(***************************************************************************)
(* A model of the location-to-frequency pipeline of getradios.py          *)
(* (class RadioRefToChirp): the county-identifier store and its bulk      *)
(* discovery gate, the county-identifier resolver, the lookup entry       *)
(* points, and the pure normalisers (_parse_tone, mode classification,    *)
(* county-key normalisation).                                             *)
(*                                                                         *)
(* Text is modelled by TLA+ strings, handled character by character with  *)
(* Len, SubSeq and \o, so that lower(), upper(), strip(), replace() and   *)
(* the regular expressions of the source are computed, not assumed.       *)
(***************************************************************************)
EXTENDS Integers, Sequences, FiniteSets, TLC

VARIABLES
    fn,         \* pure-function harness: name of the function under call
    arg,        \* its argument(s)
    ret,        \* its return value (meaningful once done)
    done,       \* TRUE once the function has returned
    disk,       \* the document countyID.db: <<STATE, county>> -> identifier
    disk0,      \* history: the document when the current call began
    bpc,        \* build_county_cache_for_state: position in the function
    bstate,     \* its argument state
    use_search, \* its argument use_search
    existing_cache,   \* its local existing_cache
    discovered_cache, \* its local discovered_cache (the batch)
    strategy,   \* history: the sub-strategies that produced the batch
    checked,    \* number of sample pairs verified so far
    verified_count,   \* its local verified_count
    new_counties,     \* its local new_counties
    accepted,   \* history: the gate's decision, "none" before it
    bresult,    \* <<"return", its value>>, or <<the exception it raised, 0>>
    rpc,        \* _get_county_id: position in the function
    rstate,     \* its argument state
    rcounty,    \* its argument county
    bs4,        \* whether BeautifulSoup can be imported
    rtrace,     \* history: the strategies attempted, each with what it found
    requested,  \* history: the kinds of network request it issued
    rresult,    \* its return value
    lpc,        \* lookup_by_*: position in the call
    lfn,        \* which entry point was called
    linput,     \* its arguments
    lstate,     \* _fetch_via_scraping: argument state
    lcounty,    \* argument county ("" for none)
    lcity,      \* argument city ("" for none)
    fetched,    \* history: the URLs _fetch_via_scraping itself requested
    response,   \* history: what the request gave
    lresult     \* what the entry point gave back: <<kind, value>>

pureVars == <<fn, arg, ret, done>>

buildVars == <<disk, disk0, bpc, bstate, use_search, existing_cache,
               discovered_cache, strategy, checked, verified_count,
               new_counties, accepted, bresult>>

resVars == <<rpc, rstate, rcounty, bs4, rtrace, requested, rresult>>

lookVars == <<lpc, lfn, linput, lstate, lcounty, lcity, fetched, response,
              lresult>>

vars == <<fn, arg, ret, done, disk, disk0, bpc, bstate, use_search,
          existing_cache, discovered_cache, strategy, checked,
          verified_count, new_counties, accepted, bresult,
          rpc, rstate, rcounty, bs4, rtrace, requested, rresult,
          lpc, lfn, linput, lstate, lcounty, lcity, fetched, response,
          lresult>>

(***************************************************************************)
(* Python str primitives                                                   *)
(***************************************************************************)
UpperAlpha == "ABCDEFGHIJKLMNOPQRSTUVWXYZ"
LowerAlpha == "abcdefghijklmnopqrstuvwxyz"
Digits == "0123456789"

RECURSIVE Find(_, _, _)
\* str.find(p) from 1-based position i; 0 when p does not occur
Find(s, p, i) ==
    IF i + Len(p) - 1 > Len(s) THEN 0
    ELSE IF SubSeq(s, i, i + Len(p) - 1) = p THEN i
    ELSE Find(s, p, i + 1)

\* the Python test  p in s
Contains(s, p) == Find(s, p, 1) # 0

CharAt(s, i) == SubSeq(s, i, i)

IsDigit(c) == Len(c) = 1 /\ Contains(Digits, c)

\* str.lower and str.upper, letter by letter
LowerOfChar ==
    [c \in {CharAt(UpperAlpha, i) : i \in 1..26} |->
        CharAt(LowerAlpha, Find(UpperAlpha, c, 1))]

UpperOfChar ==
    [c \in {CharAt(LowerAlpha, i) : i \in 1..26} |->
        CharAt(UpperAlpha, Find(LowerAlpha, c, 1))]

LowerChar(c) == IF c \in DOMAIN LowerOfChar THEN LowerOfChar[c] ELSE c

UpperChar(c) == IF c \in DOMAIN UpperOfChar THEN UpperOfChar[c] ELSE c

RECURSIVE Lower(_)
Lower(s) == IF Len(s) = 0 THEN "" ELSE LowerChar(CharAt(s, 1)) \o Lower(Tail(s))

RECURSIVE Upper(_)
Upper(s) == IF Len(s) = 0 THEN "" ELSE UpperChar(CharAt(s, 1)) \o Upper(Tail(s))

RECURSIVE LStrip(_)
LStrip(s) == IF Len(s) > 0 /\ CharAt(s, 1) = " " THEN LStrip(Tail(s)) ELSE s

RECURSIVE RStrip(_)
RStrip(s) ==
    IF Len(s) > 0 /\ CharAt(s, Len(s)) = " "
    THEN RStrip(SubSeq(s, 1, Len(s) - 1)) ELSE s

\* str.strip()
Strip(s) == RStrip(LStrip(s))

RECURSIVE Replace(_, _, _)
\* str.replace(p, r) for a non-empty p: every non-overlapping occurrence,
\* left to right
Replace(s, p, r) ==
    LET k == Find(s, p, 1)
    IN IF k = 0 THEN s
       ELSE SubSeq(s, 1, k - 1) \o r
            \o Replace(SubSeq(s, k + Len(p), Len(s)), p, r)

RECURSIVE FirstDigit(_, _)
\* position of the first digit of s at or after i; 0 when there is none
FirstDigit(s, i) ==
    IF i > Len(s) THEN 0
    ELSE IF IsDigit(CharAt(s, i)) THEN i
    ELSE FirstDigit(s, i + 1)

RECURSIVE DigitRunEnd(_, _)
\* last position of the run of digits that starts at i; i - 1 when s[i] is
\* not a digit
DigitRunEnd(s, i) ==
    IF i <= Len(s) /\ IsDigit(CharAt(s, i)) THEN DigitRunEnd(s, i + 1)
    ELSE i - 1

\* re.search(r'(\d+\.?\d*)', s).group(1); "" when there is no match
SearchNumber(s) ==
    LET i == FirstDigit(s, 1)
        j == DigitRunEnd(s, i)
        k == IF j + 1 <= Len(s) /\ CharAt(s, j + 1) = "."
             THEN DigitRunEnd(s, j + 2) ELSE j
    IN IF i = 0 THEN "" ELSE SubSeq(s, i, k)

\* re.search(r'(\d+)', s).group(1); "" when there is no match
SearchInteger(s) ==
    LET i == FirstDigit(s, 1)
    IN IF i = 0 THEN "" ELSE SubSeq(s, i, DigitRunEnd(s, i))

RECURSIVE SearchDecimalFrom(_, _)
\* re.search(r'(\d+\.\d+)', s).group(1) scanning from i; "" when no match
SearchDecimalFrom(s, i) ==
    LET a == FirstDigit(s, i)
        j == DigitRunEnd(s, a)
    IN IF a = 0 THEN ""
       ELSE IF j + 2 <= Len(s) /\ CharAt(s, j + 1) = "."
               /\ IsDigit(CharAt(s, j + 2))
            THEN SubSeq(s, a, DigitRunEnd(s, j + 2))
            ELSE SearchDecimalFrom(s, j + 1)

SearchDecimal(s) == SearchDecimalFrom(s, 1)

(***************************************************************************)
(* _parse_tone                                                             *)
(***************************************************************************)
HasDcsMarker(t) == Contains(t, "DCS") \/ Contains(t, "DTCS")

_parse_tone(tone_text) ==
    IF tone_text = "" THEN <<"No Tone", "", "">>
    ELSE LET t == Strip(Upper(tone_text))
             tone_freq == SearchNumber(t)
             dcs == SearchInteger(t)
         IN IF tone_freq # ""
            THEN IF HasDcsMarker(t)
                 THEN <<"DTCS", tone_freq, tone_freq>>
                 ELSE <<"Tone", tone_freq, tone_freq>>
            ELSE IF HasDcsMarker(t) /\ dcs # ""
                 THEN <<"DTCS", dcs, dcs>>
                 ELSE <<"No Tone", "", "">>

\* Tone cells: up to MaxToneTokens pieces of text, concatenated
MaxToneTokens == 3
ToneTokens == {"DCS", "DTCS", "dcs", "100.0", "23", "7", ".", " ", "PL", "CSQ"}

RECURSIVE Texts(_, _)
\* every concatenation of at most n tokens of the set toks
Texts(toks, n) ==
    IF n = 0 THEN {""}
    ELSE LET shorter == Texts(toks, n - 1)
         IN shorter \cup {t \o s : t \in toks, s \in shorter}

ToneTexts == Texts(ToneTokens, MaxToneTokens)

\* no call of build_county_cache_for_state is modelled
BuildIdle ==
    /\ disk = <<>> /\ disk0 = <<>>
    /\ bpc = "off" /\ bstate = "" /\ use_search = FALSE
    /\ existing_cache = <<>> /\ discovered_cache = <<>>
    /\ strategy = {} /\ checked = 0 /\ verified_count = 0
    /\ new_counties = 0 /\ accepted = "none" /\ bresult = <<"pending", 0>>

\* no _get_county_id call is in progress
ResolveIdle ==
    /\ rpc = "off" /\ rstate = "" /\ rcounty = "" /\ bs4 = TRUE
    /\ rtrace = <<>> /\ requested = {} /\ rresult = "None"

\* no lookup_by_* call is in progress
LookupIdle ==
    /\ lpc = "off" /\ lfn = "" /\ linput = <<>> /\ lstate = ""
    /\ lcounty = "" /\ lcity = "" /\ fetched = <<>> /\ response = <<>>
    /\ lresult = <<"pending", <<>>>>

PureIdle(f) ==
    /\ fn = f /\ done = FALSE /\ ret = <<>>
    /\ BuildIdle /\ ResolveIdle /\ LookupIdle

InitTone == PureIdle("_parse_tone") /\ arg \in ToneTexts

ParseTone ==
    /\ fn = "_parse_tone" /\ ~done
    /\ ret' = _parse_tone(arg)
    /\ done' = TRUE
    /\ UNCHANGED <<fn, arg, buildVars, resVars, lookVars>>

NextTone == ParseTone

SpecTone == InitTone /\ [][NextTone]_vars

(***************************************************************************)
(* Mode classification of a table row (_parse_html_response)               *)
(***************************************************************************)
\* a variant that tests DMR before P25/DIGITAL
ModeOfText_dmrfirst(mode_text) ==
    IF Contains(mode_text, "DMR") THEN "DMR"
    ELSE IF Contains(mode_text, "P25") \/ Contains(mode_text, "DIGITAL")
         THEN "Digital"
    ELSE IF Contains(mode_text, "NXDN") THEN "NXDN"
    ELSE "FM"

\* the if/elif chain over the upper-cased cell text; "FM" is the value the
\* variable holds when no branch assigns it
ModeOfText(mode_text) ==
    IF Contains(mode_text, "P25") \/ Contains(mode_text, "DIGITAL")
    THEN "Digital"
    ELSE IF Contains(mode_text, "DMR") THEN "DMR"
    ELSE IF Contains(mode_text, "NXDN") THEN "NXDN"
    ELSE IF Contains(mode_text, "FMN") \/ Contains(mode_text, "FM") THEN "FM"
    ELSE "FM"

\* col is col_map['mode'] counted from 1, 0 when the header row has no
\* mode column; cells are the texts of the row's cells
ModeOfRow(col, cells) ==
    IF col # 0 /\ col <= Len(cells)
    THEN ModeOfText(Upper(Strip(cells[col])))
    ELSE "FM"

MaxModeTokens == 2
ModeTokens ==
    {"P25", "p25", "DMR", "dmr", "NXDN", "FMN", "FM", "fm", "Digital", "AM",
     "D-STAR", "/", " ", "P25/DMR", "DMR/P25", "NXDN P25", "DMR NXDN"}

ModeTexts == Texts(ModeTokens, MaxModeTokens)

\* a row of two cells (frequency, mode) read under a header row whose mode
\* column is absent (0), the second column, or a third column the row lacks
InitMode ==
    /\ PureIdle("mode")
    /\ arg \in {<<col, <<"146.940", t>> >> : col \in {0, 2, 3}, t \in ModeTexts}

ClassifyMode ==
    /\ fn = "mode" /\ ~done
    /\ ret' = ModeOfRow(arg[1], arg[2])
    /\ done' = TRUE
    /\ UNCHANGED <<fn, arg, buildVars, resVars, lookVars>>

NextMode == ClassifyMode

SpecMode == InitMode /\ [][NextMode]_vars

(***************************************************************************)
(* County keys: how each place of the program derives the key             *)
(* (county, state) under which an identifier is stored or looked up       *)
(***************************************************************************)
\* _get_known_county_id, and _get_county_id after a bulk discovery:
\* (county.lower().replace(' county', '').strip(), state.lower())
KnownKey(county, state) ==
    <<Strip(Replace(Lower(county), " county", "")), Lower(state)>>

\* _get_county_id, page-scrape strategies: county_clean =
\* county.replace(' County', '').replace(' county', '').strip().lower(),
\* stored under (county_clean, state.lower())
ResolverKey(county, state) ==
    <<Lower(Strip(Replace(Replace(county, " County", ""), " county", ""))),
      Lower(state)>>

\* JavaScript text.replace(/\s+<word>.*$/i, ''): the text is cut at the
\* first run of white space that is followed by the word, in any case
CutAt(text, word) ==
    LET k == Find(Lower(text), " " \o Lower(word), 1)
    IN IF k = 0 THEN text ELSE RStrip(SubSeq(text, 1, k - 1))

\* _extract_counties_with_playwright: the name of a dropdown option or
\* ctid link (suffixes County, Borough, Census Area, Parish cut, the whole
\* text kept when less than two characters remain), lower-cased, with the
\* requested state
PlaywrightKey(text, state) ==
    LET t == Strip(text)
        cut == Strip(CutAt(CutAt(CutAt(CutAt(t, "County"), "Borough"),
                                 "Census Area"), "Parish"))
        countyName == IF Len(cut) < 2 THEN t ELSE cut
    IN <<Lower(Strip(countyName)), Lower(Upper(state))>>

\* _build_county_cache_for_state, items of a JSON list answer
ApiListKey(name, state) ==
    <<Lower(Strip(Replace(Replace(name, " County", ""), " county", ""))),
      Lower(state)>>

\* _build_county_cache_for_state, <a href="...ctid..."> links of the browse
\* page
BrowseLinkName(text) ==
    Strip(Replace(Replace(Replace(Replace(text, " County", ""), " county", ""),
                          " Parish", ""), " Borough", ""))

BrowseLinkKey(text, state) == <<Lower(BrowseLinkName(text)), Lower(state)>>

\* the link is kept only when its text names the state abbreviation
BrowseLinkKept(text, state) ==
    /\ Len(BrowseLinkName(text)) > 1
    /\ Contains(Upper(text), Upper(state))

\* _build_county_cache_for_state, known-list probing
KnownListKey(county_name, state) ==
    <<Strip(Replace(Lower(county_name), " county", "")), Lower(state)>>

(***************************************************************************)
(* Spellings of a county name                                              *)
(***************************************************************************)
CountyBases == {"Los Angeles", "Orleans", "Kenai Peninsula"}
CountySuffixes == {"", " County", " county", " COUNTY"}
AreaSuffixes == {"", " County", " Parish", " Borough", " Census Area"}
Paddings == {<<"", "">>, <<" ", "">>, <<"", " ">>, <<" ", " ">>}
StateSpellings == {"CA", "ca", "Ca"}

\* the same name in the case given, in lower case and in upper case
Cases(s) == {s, Lower(s), Upper(s)}

\* every spelling of county base b with a County suffix or none
CountySpellings(b) ==
    {pad[1] \o c \o pad[2] :
        c \in UNION {Cases(b \o suf) : suf \in CountySuffixes}
             \cup {Lower(b) \o suf : suf \in CountySuffixes},
        pad \in Paddings}

\* a key derivation (fn) applied to a spelling of a county and to the plain
\* spelling of the same county: arg = <<county, state, plain county, plain
\* state>>
InitKey ==
    /\ fn \in {"key_known", "key_resolver"}
    /\ done = FALSE /\ ret = <<>> /\ BuildIdle /\ ResolveIdle /\ LookupIdle
    /\ arg \in UNION {{<<c, st, Lower(b), "ca">> :
                          c \in CountySpellings(b), st \in StateSpellings} :
                      b \in CountyBases}

KeyKnown ==
    /\ fn = "key_known" /\ ~done
    /\ ret' = <<KnownKey(arg[1], arg[2]), KnownKey(arg[3], arg[4])>>
    /\ done' = TRUE
    /\ UNCHANGED <<fn, arg, buildVars, resVars, lookVars>>

KeyResolver ==
    /\ fn = "key_resolver" /\ ~done
    /\ ret' = <<ResolverKey(arg[1], arg[2]), ResolverKey(arg[3], arg[4])>>
    /\ done' = TRUE
    /\ UNCHANGED <<fn, arg, buildVars, resVars, lookVars>>

NextKey == KeyKnown \/ KeyResolver

SpecKey == InitKey /\ [][NextKey]_vars

(***************************************************************************)
(* C9  _parse_tone                                                         *)
(***************************************************************************)
ToneReturned == fn = "_parse_tone" /\ done

\* the text as _parse_tone examines it
ToneSeen == Strip(Upper(arg))

\* C9: empty text gives No Tone; a text with a decimal number gives DTCS
\* when it has a DCS/DTCS marker and Tone otherwise, with the first matched
\* number in both fields; a text with a marker, no decimal number and an
\* integer gives DTCS with that integer; the two fields are always equal
\* and are empty exactly for No Tone.
C9_ParseToneMap ==
    ToneReturned =>
        /\ (arg = "" => ret = <<"No Tone", "", "">>)
        /\ (SearchDecimal(ToneSeen) # "" =>
                /\ ret[1] = (IF HasDcsMarker(ToneSeen) THEN "DTCS" ELSE "Tone")
                /\ ret[2] = SearchNumber(ToneSeen))
        /\ (/\ SearchDecimal(ToneSeen) = ""
            /\ HasDcsMarker(ToneSeen)
            /\ FirstDigit(ToneSeen, 1) # 0
            => ret = <<"DTCS", SearchInteger(ToneSeen), SearchInteger(ToneSeen)>>)
        /\ ret[2] = ret[3]
        /\ (ret[2] = "" <=> ret[1] = "No Tone")

(***************************************************************************)
(* C10  mode classification                                                *)
(***************************************************************************)
ModeReturned == fn = "mode" /\ done

ModeColumnRead == arg[1] # 0 /\ arg[1] <= Len(arg[2])

\* the mode cell as the row shows it, upper-cased
ModeCell == Upper(arg[2][2])

\* C10: the mode of a row is Digital when its mode cell holds P25 or
\* DIGITAL, else DMR when it holds DMR, else NXDN when it holds NXDN, else
\* FM, whatever the order of the tokens in the cell; a row read without a
\* mode column is FM; the result is one of FM, Digital, DMR, NXDN.
C10_ModePrecedence ==
    ModeReturned =>
        /\ ret \in {"FM", "Digital", "DMR", "NXDN"}
        /\ (~ModeColumnRead => ret = "FM")
        /\ (ModeColumnRead =>
              /\ (ret = "Digital" <=>
                    Contains(ModeCell, "P25") \/ Contains(ModeCell, "DIGITAL"))
              /\ (ret = "DMR" <=>
                    /\ Contains(ModeCell, "DMR")
                    /\ ~Contains(ModeCell, "P25")
                    /\ ~Contains(ModeCell, "DIGITAL"))
              /\ (ret = "NXDN" <=>
                    /\ Contains(ModeCell, "NXDN")
                    /\ ~Contains(ModeCell, "DMR")
                    /\ ~Contains(ModeCell, "P25")
                    /\ ~Contains(ModeCell, "DIGITAL"))
              /\ (arg[2][2] \in {"P25/DMR", "DMR/P25"} => ret = "Digital"))

\* a cell that names DMR before P25 was classified, as Digital
C10_Witness ==
    /\ ModeReturned
    /\ arg = <<2, <<"146.940", "DMR/P25">> >>
    /\ ret = "Digital"

(***************************************************************************)
(* A county stored by a discovery path, then looked up                    *)
(***************************************************************************)
AreaBases == {"Orleans", "Plaquemines", "La Salle"}
DiscoveryPaths == {"dropdown", "browse_link", "api_list", "resolver"}

\* the spellings under which a user may name the county shown as b \o suf
QuerySpellings(b, suf) == Cases(b \o suf) \cup Cases(b)

\* arg = <<path, text shown by the page (or typed, for the resolver),
\* state requested, name looked up later, state looked up later>>
InitStore ==
    /\ PureIdle("store_lookup")
    /\ arg \in UNION {{<<path, b \o suf, "LA", q, st>> :
                          path \in DiscoveryPaths,
                          q \in QuerySpellings(b, suf),
                          st \in {"LA", "la"}} :
                      b \in AreaBases, suf \in AreaSuffixes}

Storing(path) == fn = "store_lookup" /\ ~done /\ ret = <<>> /\ arg[1] = path

\* discovered_counties[county_key] = str(county_id), later saved
StoreFromDropdown ==
    /\ Storing("dropdown")
    /\ ret' = << {PlaywrightKey(arg[2], arg[3])} >>
    /\ UNCHANGED <<fn, arg, done, buildVars, resVars, lookVars>>

StoreFromBrowseLink ==
    /\ Storing("browse_link")
    /\ ret' = << IF BrowseLinkKept(arg[2], arg[3])
                 THEN {BrowseLinkKey(arg[2], arg[3])} ELSE {} >>
    /\ UNCHANGED <<fn, arg, done, buildVars, resVars, lookVars>>

StoreFromApiList ==
    /\ Storing("api_list")
    /\ ret' = << {ApiListKey(arg[2], arg[3])} >>
    /\ UNCHANGED <<fn, arg, done, buildVars, resVars, lookVars>>

\* cache[(county_clean, state.lower())] = county_id in _get_county_id
StoreFromResolver ==
    /\ Storing("resolver")
    /\ ret' = << {ResolverKey(arg[2], arg[3])} >>
    /\ UNCHANGED <<fn, arg, done, buildVars, resVars, lookVars>>

\* _get_known_county_id: county_key in cache
LookupCounty ==
    /\ fn = "store_lookup" /\ ~done /\ Len(ret) = 1
    /\ ret' = <<ret[1], KnownKey(arg[4], arg[5])>>
    /\ done' = TRUE
    /\ UNCHANGED <<fn, arg, buildVars, resVars, lookVars>>

NextStore ==
    \/ StoreFromDropdown
    \/ StoreFromBrowseLink
    \/ StoreFromApiList
    \/ StoreFromResolver
    \/ LookupCounty

SpecStore == InitStore /\ [][NextStore]_vars

(***************************************************************************)
(* The county-identifier store: countyID.db and the cache dictionaries    *)
(***************************************************************************)
\* the empty dictionary
EmptyCache == <<>>

\* a countyID.db that json.load rejects
Unreadable == (<<"?", "?">> :> "?")

\* _save_county_cache: the state-sectioned document, data[STATE][county]
SaveCache(cache) ==
    LET entry == [k \in DOMAIN cache |-> <<Upper(k[2]), Lower(k[1])>>]
    IN [d \in {entry[k] : k \in DOMAIN cache} |->
          cache[CHOOSE k \in DOMAIN cache : entry[k] = d]]

\* a variant of LoadCache that keeps the state as the document spells it
LoadCache_statecase(doc) ==
    LET key == [d \in DOMAIN doc |-> <<Lower(d[2]), d[1]>>]
    IN [k \in {key[d] : d \in DOMAIN doc} |->
          doc[CHOOSE d \in DOMAIN doc : key[d] = k]]

\* _load_county_cache: cache[(county.lower(), state.lower())] = str(id);
\* {} for a document that cannot be read
LoadCache(doc) ==
    LET key == [d \in DOMAIN doc |-> <<Lower(d[2]), Lower(d[1])>>]
    IN IF doc = Unreadable THEN EmptyCache
       ELSE [k \in {key[d] : d \in DOMAIN doc} |->
               doc[CHOOSE d \in DOMAIN doc : key[d] = k]]

\* dict.update: the pairs of batch replace those of cache
Update(cache, batch) ==
    [k \in DOMAIN cache \cup DOMAIN batch |->
        IF k \in DOMAIN batch THEN batch[k] ELSE cache[k]]

\* the loop "if county_key not in existing_cache: existing_cache[...] = ..."
AddIfAbsent(cache, batch) ==
    [k \in DOMAIN cache \cup DOMAIN batch |->
        IF k \in DOMAIN cache THEN cache[k] ELSE batch[k]]

\* {k: v for k, v in cache.items() if k[1] == st}
OfState(cache, st) == {k \in DOMAIN cache : k[2] = st}

\* _get_state_id: the identifier of a state, "" (None) for no state
StateId(state) ==
    CASE Upper(state) = "CA" -> "5"
      [] Upper(state) = "LA" -> "18"
      [] Upper(state) = "WA" -> "47"
      [] OTHER -> ""

(***************************************************************************)
(* build_county_cache_for_state                                            *)
(***************************************************************************)
\* counties per state that the pages (or the known list) may name
MaxCounties == 5
CountyPool(st) ==
    IF Upper(st) = "CA"
    THEN <<"Alameda", "Alpine", "Amador", "Butte", "Calaveras", "Colusa", "Contra Costa">>
    ELSE <<"Acadia Parish", "Allen Parish", "Ascension Parish", "Bossier Parish",
           "Caddo Parish", "Orleans Parish", "Sabine Parish">>

\* _get_known_counties_for_state: a list for CA (and TX), none otherwise
KnownCounties(state) ==
    IF Upper(state) = "CA"
    THEN {CountyPool(state)[i] : i \in 1..MaxCounties} ELSE {}

Ids == {"100", "200"}

\* the pairs that a rendered page naming counties lo..hi of the pool gives,
\* each with identifier id
PageBatch(state, lo, hi, id) ==
    [k \in {PlaywrightKey(CountyPool(state)[i], state) : i \in lo..hi} |-> id]

\* what a rendered page may yield for the state: nothing, or some counties
RenderedBatches(state) ==
    {EmptyCache} \cup
    {PageBatch(state, lo, hi, id) :
        lo \in 1..MaxCounties, hi \in 1..MaxCounties, id \in Ids}

\* the pairs that a JSON list answer naming counties 1..hi of the pool gives
ApiBatch(state, hi, id) ==
    [k \in {ApiListKey(CountyPool(state)[i], state) : i \in 1..hi} |-> id]

\* what mining the browse page may add: nothing, or some counties
MinedBatches(state) ==
    {EmptyCache} \cup
    {ApiBatch(state, hi, id) : hi \in 1..MaxCounties, id \in Ids}

\* documents the program may find on disk when it starts
InitialCaches ==
    { EmptyCache,
      (<<"king", "wa">> :> "2974"),
      (<<"alameda", "ca">> :> "100") @@ (<<"acadia", "la">> :> "100"),
      (<<"alameda", "ca">> :> "200") @@ (<<"alpine", "ca">> :> "200")
        @@ (<<"acadia", "la">> :> "200") @@ (<<"allen", "la">> :> "200") }

InitBuild ==
    /\ fn = "" /\ arg = <<>> /\ ret = <<>> /\ done = FALSE
    /\ disk \in {SaveCache(c) : c \in InitialCaches}
    /\ disk0 = disk
    /\ bpc = "start"
    /\ bstate \in {"CA", "la", "ZZ"}
    /\ use_search \in BOOLEAN
    /\ existing_cache = EmptyCache /\ discovered_cache = EmptyCache
    /\ strategy = {} /\ checked = 0 /\ verified_count = 0
    /\ new_counties = 0 /\ accepted = "none" /\ bresult = <<"pending", 0>>
    /\ ResolveIdle /\ LookupIdle

\* lines 3375-3388: an invalid state returns 0; otherwise the cache is loaded
BuildStart ==
    /\ bpc = "start"
    /\ IF StateId(bstate) = ""
       THEN /\ bpc' = "returned" /\ bresult' = <<"return", 0>>
            /\ UNCHANGED existing_cache
       ELSE /\ bpc' = "loaded" /\ existing_cache' = LoadCache(disk)
            /\ UNCHANGED bresult
    /\ UNCHANGED <<pureVars, resVars, lookVars,
                   disk, disk0, bstate, use_search, discovered_cache,
                   strategy, checked, verified_count, new_counties, accepted>>

\* line 3390 with use_search False: discovery is skipped and
\* discovered_cache is never bound
DiscoverSkipped ==
    /\ bpc = "loaded" /\ ~use_search
    /\ bpc' = "returning"
    /\ UNCHANGED <<pureVars, resVars, lookVars,
                   disk, disk0, bstate, use_search, existing_cache,
                   discovered_cache, strategy, checked, verified_count,
                   new_counties, accepted, bresult>>

\* where the function goes once discovered_cache is bound (3395, 3453)
AfterDiscovery(batch) == IF batch = EmptyCache THEN "returning" ELSE "verifying"

\* _build_county_cache_for_state, known-list probing (3025-3088): a known
\* county already on disk keeps its identifier; any other is probed and is
\* found or not; nothing is saved
DiscoverKnownList ==
    /\ bpc = "loaded" /\ use_search /\ KnownCounties(bstate) # {}
    /\ \E found \in SUBSET KnownCounties(bstate) :
        LET onDisk == LoadCache(disk)
            keys == {KnownListKey(c, bstate) : c \in KnownCounties(bstate)}
            hit == {KnownListKey(c, bstate) : c \in found}
            cache == [k \in (keys \cap DOMAIN onDisk) \cup hit |->
                        IF k \in DOMAIN onDisk THEN onDisk[k] ELSE "100"]
        IN /\ discovered_cache' = cache
           /\ strategy' = IF cache = EmptyCache THEN {} ELSE {"known_list"}
           /\ bpc' = AfterDiscovery(cache)
    /\ UNCHANGED <<pureVars, resVars, lookVars,
                   disk, disk0, bstate, use_search, existing_cache,
                   checked, verified_count, new_counties, accepted, bresult>>

\* _build_county_cache_for_state without a known list (3090-3291): the
\* rendered page (with its nearby-identifier retries) yields a batch or
\* nothing; a non-empty batch is merged into a fresh load of the document
\* and saved at once (3125-3129); mining the browse page then adds to the
\* batch (3148-3279) without saving
DiscoverRendered ==
    /\ bpc = "loaded" /\ use_search /\ KnownCounties(bstate) = {}
    /\ \E rendered \in RenderedBatches(bstate), mined \in MinedBatches(bstate) :
        LET cache == Update(rendered, mined)
        IN /\ discovered_cache' = cache
           /\ strategy' = (IF rendered = EmptyCache THEN {} ELSE {"rendered"})
                           \cup (IF mined = EmptyCache THEN {} ELSE {"browse"})
           /\ disk' = IF rendered = EmptyCache THEN disk
                       ELSE SaveCache(Update(LoadCache(disk), rendered))
           /\ bpc' = AfterDiscovery(cache)
    /\ UNCHANGED <<pureVars, resVars, lookVars,
                   disk0, bstate, use_search, existing_cache,
                   checked, verified_count, new_counties, accepted, bresult>>

\* min(5, len(discovered_cache))
SampleLimit == 5
SampleSize(batch) ==
    IF Cardinality(DOMAIN batch) < SampleLimit
    THEN Cardinality(DOMAIN batch) ELSE SampleLimit

\* one turn of the loop at 3412-3417: _verify_county_with_api answers True
\* or False for the next pair of the sample
VerifyCounty ==
    /\ bpc = "verifying" /\ checked < SampleSize(discovered_cache)
    /\ \E answer \in BOOLEAN :
        verified_count' = IF answer THEN verified_count + 1 ELSE verified_count
    /\ checked' = checked + 1
    /\ UNCHANGED <<pureVars, resVars, lookVars,
                   disk, disk0, bpc, bstate, use_search,
                   existing_cache, discovered_cache, strategy, new_counties,
                   accepted, bresult>>

\* verification_rate >= 0.8, with verification_rate = verified / sample_size
\* (0 for an empty sample); 4/5 and 0.8 are the same double
RatePasses(verified, sample_size) ==
    sample_size > 0 /\ 5 * verified >= 4 * sample_size

\* lines 3419-3436: the gate. Accepted: every pair whose key is absent is
\* added to existing_cache, which is saved; rejected: nothing is done
Gate ==
    /\ bpc = "verifying" /\ checked = SampleSize(discovered_cache)
    /\ IF RatePasses(verified_count, SampleSize(discovered_cache))
       THEN /\ existing_cache' = AddIfAbsent(existing_cache, discovered_cache)
            /\ new_counties' =
                  Cardinality(DOMAIN discovered_cache \ DOMAIN existing_cache)
            /\ disk' = SaveCache(existing_cache')
            /\ accepted' = "yes"
       ELSE /\ accepted' = "no"
            /\ UNCHANGED <<existing_cache, new_counties, disk>>
    /\ bpc' = "returning"
    /\ UNCHANGED <<pureVars, resVars, lookVars,
                   disk0, bstate, use_search, discovered_cache,
                   strategy, checked, verified_count, bresult>>

\* lines 3457-3467: the count of cached counties of the (detected) state;
\* reading the unbound discovered_cache raises UnboundLocalError
BuildReturn ==
    /\ bpc = "returning"
    /\ bresult' = IF ~use_search THEN <<"UnboundLocalError", 0>>
                   ELSE <<"return",
                          Cardinality(OfState(existing_cache, Lower(bstate)))>>
    /\ bpc' = "returned"
    /\ UNCHANGED <<pureVars, resVars, lookVars,
                   disk, disk0, bstate, use_search, existing_cache,
                   discovered_cache, strategy, checked, verified_count,
                   new_counties, accepted>>

NextBuild ==
    \/ BuildStart
    \/ DiscoverSkipped
    \/ DiscoverKnownList
    \/ DiscoverRendered
    \/ VerifyCounty
    \/ Gate
    \/ BuildReturn

SpecBuild == InitBuild /\ [][NextBuild]_vars

(***************************************************************************)
(* _get_county_id: the county-identifier resolver                          *)
(***************************************************************************)
\* Python's None, where an identifier is expected
None == "None"

\* the hard-coded table of _get_known_county_id
KnownTable ==
    (<<"sanders", "mt">> :> "1638") @@ (<<"king", "wa">> :> "2974")
    @@ (<<"santa barbara", "ca">> :> "83") @@ (<<"los angeles", "ca">> :> "19")
    @@ (<<"orange", "ca">> :> "59") @@ (<<"san diego", "ca">> :> "61")
    @@ (<<"san francisco", "ca">> :> "60")

\* a variant of KnownCountyId that consults the cache before the table
KnownCountyId_cachefirst(county, state, doc) ==
    LET county_key == KnownKey(county, state)
        cache == LoadCache(doc)
    IN IF county_key \in DOMAIN cache
       THEN << <<"cache", cache[county_key]>> >>
       ELSE IF county_key \in DOMAIN KnownTable
       THEN << <<"cache", None>>, <<"static", KnownTable[county_key]>> >>
       ELSE << <<"cache", None>>, <<"static", None>> >>

\* _get_known_county_id: the table first, then the cache loaded from the
\* document; the value is the list of the lookups made, each with what it
\* found
KnownCountyId(county, state, doc) ==
    LET county_key == KnownKey(county, state)
    IN IF county_key \in DOMAIN KnownTable
       THEN << <<"static", KnownTable[county_key]>> >>
       ELSE LET cache == LoadCache(doc)
            IN IF county_key \in DOMAIN cache
               THEN << <<"static", None>>, <<"cache", cache[county_key]>> >>
               ELSE << <<"static", None>>, <<"cache", None>> >>

\* what the last lookup of a trace found
Found(trace) == trace[Len(trace)][2]

\* candidate pages /db/browse/ctid/<id> that a strategy may test
MaxCandidates == 2

\* a candidate page: the answer to its request, and whether its heading
\* names the state and the county
CandidatePages ==
    {[status |-> "200", hasState |-> s, hasCounty |-> c] : s, c \in BOOLEAN}
    \cup {[status |-> "404", hasState |-> FALSE, hasCounty |-> FALSE],
          [status |-> "timeout", hasState |-> FALSE, hasCounty |-> FALSE]}

CandidateLists == UNION {[1..n -> CandidatePages] : n \in 0..MaxCandidates}

\* the answers a page request may give
PageAnswers == {"200", "404", "timeout"}

\* the identifier of the i-th candidate that a strategy finds
CandidateId(base, i) == base \o SubSeq(Digits, i + 1, i + 1)

\* index of the first candidate with property ok, 0 when there is none
FirstIndex(cands, ok) ==
    IF \E i \in 1..Len(cands) : ok[i]
    THEN CHOOSE i \in 1..Len(cands) : ok[i] /\ \A j \in 1..(i - 1) : ~ok[j]
    ELSE 0

\* no candidate page was taken
NoPage == [status |-> "none", hasState |-> FALSE, hasCounty |-> FALSE]

\* the page of the hit-th candidate
PageTaken(cands, hit) == IF hit = 0 THEN NoPage ELSE cands[hit]

\* a local name that no assignment has bound yet
Unbound == "unbound"

\* lines 3626-3638: the candidates named by the inline fragments are tested
\* in turn, the first whose page answers 200 with the state in its h1 is
\* taken (its place in cands, 0 for none); a request that raises leaves
\* the whole block
QueryHit(answer, cands) ==
    LET hit == FirstIndex(cands, [i \in 1..Len(cands) |->
                   cands[i].status = "200" /\ cands[i].hasState])
        raised == FirstIndex(cands, [i \in 1..Len(cands) |->
                   cands[i].status = "timeout"])
    IN IF answer = "200" /\ hit # 0 /\ (raised = 0 \/ hit < raised)
       THEN hit ELSE 0

\* county_id when the loop 3628-3638 has ended without raising: line 3637
\* is its first assignment in the function
QueryLoopLeaves(answer, cands) ==
    IF QueryHit(answer, cands) # 0
    THEN CandidateId("30", QueryHit(answer, cands)) ELSE Unbound

\* line 3640, "if not county_id": the regex sweep of the browse page
\* (3641-3659) is entered when county_id is bound and falsy; reading the
\* unbound name raises UnboundLocalError, swallowed at line 3668
QuerySwept(answer, cands) ==
    /\ answer = "200"
    /\ \A i \in 1..Len(cands) : cands[i].status # "timeout"
    /\ QueryLoopLeaves(answer, cands) # Unbound
    /\ QueryLoopLeaves(answer, cands) \in {None, ""}

\* what the block 3617-3669 finds
QueryFound(answer, cands) ==
    IF QueryHit(answer, cands) # 0
    THEN CandidateId("30", QueryHit(answer, cands)) ELSE None

\* lines 3682-3703: the links whose text names the county are tested in
\* turn; the first whose page answers 200 with the county in its h1 is taken
LinksHit(answer, cands) ==
    IF answer = "200"
    THEN FirstIndex(cands, [i \in 1..Len(cands) |->
             cands[i].status = "200" /\ cands[i].hasCounty])
    ELSE 0

LinksFound(answer, cands) ==
    IF LinksHit(answer, cands) # 0
    THEN CandidateId("40", LinksHit(answer, cands)) ELSE None

\* lines 3713-3734: every ctid of the page is tested; the first whose
\* heading names the county and the state is taken
SweepHit(answer, cands) ==
    IF answer = "200"
    THEN FirstIndex(cands, [i \in 1..Len(cands) |->
             cands[i].status = "200" /\ cands[i].hasCounty
             /\ cands[i].hasState])
    ELSE 0

SweepFound(answer, cands) ==
    IF SweepHit(answer, cands) # 0
    THEN CandidateId("50", SweepHit(answer, cands)) ELSE None

\* cache = self._load_county_cache(); cache[county_key] = county_id;
\* self._save_county_cache(cache)
Remember(doc, county, state, county_id) ==
    SaveCache(Update(LoadCache(doc), ResolverKey(county, state) :> county_id))

\* what _build_county_cache_for_state may return to the resolver: the pairs
\* of the first counties of the state, found by probing the known list or
\* on the rendered page and the browse page
BulkBatches(state) ==
    IF KnownCounties(state) # {}
    THEN {[k \in {KnownListKey(CountyPool(state)[i], state) : i \in 1..hi}
              |-> "100"] : hi \in 0..MaxCounties}
    ELSE {Update(rendered, mined) :
            rendered \in {EmptyCache, PageBatch(state, 1, MaxCounties, "100")},
            mined \in {EmptyCache} \cup
                      {ApiBatch(state, hi, "200") : hi \in 1..MaxCounties}}

\* the calls of the resolver that are followed
ResolveInputs ==
    {<<"King County", "WA">>, <<"Alameda", "CA">>, <<"Allen", "la">>,
     <<"Allen Parish", "LA">>}

\* documents the resolver may find: those of InitialCaches, one that holds
\* another identifier than the table for King, WA, and an unreadable one
ResolveCaches == InitialCaches \cup {(<<"king", "wa">> :> "555")}

ResolveDocuments == {SaveCache(c) : c \in ResolveCaches} \cup {Unreadable}

\* the resolver is called with state_id = _get_state_id(state)
ResolveCalled(county, state) ==
    /\ rpc = "start" /\ rstate = state /\ rcounty = county
    /\ rtrace = <<>> /\ requested = {} /\ rresult = None

InitResolve ==
    /\ fn = "" /\ arg = <<>> /\ ret = <<>> /\ done = FALSE
    /\ disk \in ResolveDocuments
    /\ disk0 = disk
    /\ bpc = "off" /\ bstate = "" /\ use_search = FALSE
    /\ existing_cache = EmptyCache /\ discovered_cache = EmptyCache
    /\ strategy = {} /\ checked = 0 /\ verified_count = 0
    /\ new_counties = 0 /\ accepted = "none" /\ bresult = <<"pending", 0>>
    /\ bs4 \in BOOLEAN
    /\ \E input \in ResolveInputs : ResolveCalled(input[1], input[2])
    /\ LookupIdle

\* what a resolver step leaves alone
ResolveFrame ==
    UNCHANGED <<pureVars, lookVars, disk0, bpc, bstate, use_search,
                existing_cache, discovered_cache, strategy, checked,
                verified_count, new_counties, accepted, bresult, rstate,
                rcounty, bs4>>

\* the resolver returns county_id
ResolveReturns(county_id) == rpc' = "done" /\ rresult' = county_id

\* lines 3589-3592: known_id = self._get_known_county_id(county, state)
ResolveKnown ==
    /\ rpc = "start"
    /\ rtrace' = KnownCountyId(rcounty, rstate, disk)
    /\ IF Found(rtrace') # None
       THEN ResolveReturns(Found(rtrace'))
       ELSE rpc' = "bulk" /\ UNCHANGED rresult
    /\ UNCHANGED <<disk, requested>>
    /\ ResolveFrame

\* lines 3598-3605: new_cache is merged into the cache and saved, and the
\* county is looked up again; an empty new_cache changes nothing
BulkOutcome(doc, county, state, new_cache) ==
    LET merged == Update(LoadCache(doc), new_cache)
        county_key == KnownKey(county, state)
        hit == new_cache # EmptyCache /\ county_key \in DOMAIN merged
    IN [disk |-> IF new_cache = EmptyCache THEN doc ELSE SaveCache(merged),
        tried |-> << <<"bulk", IF hit THEN merged[county_key] ELSE None>> >>,
        asked |-> {"bulk"}]

\* lines 3593-3597: the whole state is discovered only when the cache holds
\* no county of the state
BulkOutcomes(doc, county, state) ==
    IF StateId(state) # "" /\ OfState(LoadCache(doc), Lower(state)) = {}
    THEN {BulkOutcome(doc, county, state, new_cache) :
            new_cache \in BulkBatches(state)}
    ELSE {[disk |-> doc, tried |-> <<>>, asked |-> {}]}

\* lines 3593-3605
ResolveBulk ==
    /\ rpc = "bulk"
    /\ \E outcome \in BulkOutcomes(disk, rcounty, rstate) :
        /\ disk' = outcome.disk
        /\ requested' = requested \cup outcome.asked
        /\ rtrace' = rtrace \o outcome.tried
        /\ IF outcome.tried # <<>> /\ Found(outcome.tried) # None
           THEN ResolveReturns(Found(outcome.tried))
           ELSE rpc' = "query" /\ UNCHANGED rresult
    /\ ResolveFrame

\* lines 3607-3611: without BeautifulSoup the resolver gives up
ResolveNoParser ==
    /\ rpc = "query" /\ ~bs4
    /\ ResolveReturns(None)
    /\ UNCHANGED <<disk, requested, rtrace>>
    /\ ResolveFrame

\* a strategy found county_id: it is remembered and returned; or it found
\* nothing and the resolver goes on at position next; seen tells which
\* candidate page was taken and whether the regex sweep of the browse page
\* was entered
ResolveTried(name, county_id, seen, asked, next) ==
    /\ rtrace' = Append(rtrace, <<name, county_id, seen>>)
    /\ requested' = requested \cup asked
    /\ IF county_id # None
       THEN /\ disk' = Remember(disk, rcounty, rstate, county_id)
            /\ ResolveReturns(county_id)
       ELSE /\ rpc' = next
            /\ UNCHANGED <<disk, rresult>>

\* lines 3617-3669: the query page of the state and its inline fragments
ResolveQuery ==
    /\ rpc = "query" /\ bs4
    /\ \E answer \in PageAnswers, cands \in CandidateLists :
        /\ answer # "200" => cands = <<>>
        /\ ResolveTried("scrape", QueryFound(answer, cands),
                        [page |-> PageTaken(cands, QueryHit(answer, cands)),
                         swept |-> QuerySwept(answer, cands)],
                        {"query"} \cup (IF cands = <<>> THEN {} ELSE {"ctid"}),
                        "browse_links")
    /\ ResolveFrame

\* lines 3671-3707, one turn of "for url in urls_to_try": the links of the
\* page (the browse page, then the apps page) whose text names the county
ResolveLinks(page) ==
    /\ rpc = page \o "_links"
    /\ \E answer \in PageAnswers, cands \in CandidateLists :
        /\ answer # "200" => cands = <<>>
        /\ ResolveTried(page \o "_links", LinksFound(answer, cands),
                        [page |-> PageTaken(cands, LinksHit(answer, cands)),
                         swept |-> FALSE],
                        {page} \cup (IF cands = <<>> THEN {} ELSE {"ctid"}),
                        IF page = "browse" THEN "apps_links" ELSE "sweep")
    /\ ResolveFrame

\* lines 3709-3740: every ctid of the browse page; None when none fits
ResolveSweep ==
    /\ rpc = "sweep"
    /\ \E answer \in PageAnswers, cands \in CandidateLists :
        /\ answer # "200" => cands = <<>>
        /\ ResolveTried("sweep", SweepFound(answer, cands),
                        [page |-> PageTaken(cands, SweepHit(answer, cands)),
                         swept |-> FALSE],
                        {"browse"} \cup (IF cands = <<>> THEN {} ELSE {"ctid"}),
                        "done")
    /\ ResolveFrame

NextResolve ==
    \/ ResolveKnown
    \/ ResolveBulk
    \/ ResolveNoParser
    \/ ResolveQuery
    \/ ResolveLinks("browse")
    \/ ResolveLinks("apps")
    \/ ResolveSweep

SpecResolve == InitResolve /\ [][NextResolve]_vars

(***************************************************************************)
(* lookup_by_zipcode, lookup_by_city_state, lookup_by_county_state and     *)
(* _fetch_via_scraping                                                     *)
(***************************************************************************)
\* bool(x) of a value that is None or a str
Truthy(x) == x \notin {None, ""}

\* the exceptions that the collaborators raise, all subclasses of Exception
Exceptions ==
    {"ImportError", "Timeout", "RequestException", "AttributeError",
     "ValueError", "IndexError"}

\* a variant of FetchHandles that catches network errors only
FetchHandles_network(exc) == exc \in {"Timeout", "RequestException"}

\* the handler "except Exception as e" of _fetch_via_scraping
FetchHandles(exc) == exc \in Exceptions

\* places that the geocoders know; the offline dataset may also answer
\* with a record whose fields are None
Places ==
    {[city |-> "Seattle", state |-> "WA", county |-> "King County"],
     [city |-> "Jennings", state |-> "LA", county |-> "Allen Parish"],
     [city |-> "Reno", state |-> "ZZ", county |-> "Washoe County"]}

NoPlace == [city |-> None, state |-> None, county |-> None]

\* what the offline dataset does and what the web geocoder does
GeocoderAnswers == {"found", "empty", "raises"}

\* _find_county_for_city: the county of the dataset's results; None when it
\* has no result; the web geocoder only when the dataset raised (or is not
\* installed), its county without the suffix County
FindCounty(dataset, web, place) ==
    IF dataset = "found" THEN place.county
    ELSE IF dataset = "raises" /\ web = "found"
         /\ Contains(Lower(place.county), "county")
    THEN Strip(Replace(place.county, " County", ""))
    ELSE None

\* what the ZIP web API gives
ZipApiAnswers ==
    {"found", "timeout", "request_error", "non200", "badjson", "noplaces",
     "incomplete"}

\* _get_location_from_zip and its fallback: the location, NoPlace for None
ZipLocation(dataset, api, place, county) ==
    IF dataset = "found" THEN place
    ELSE IF api = "found"
    THEN [city |-> place.city, state |-> place.state,
          county |-> IF Truthy(county) THEN county ELSE ""]
    ELSE NoPlace

\* the calls that are followed
LookupInputs ==
    {<<"zip", "98101">>, <<"zip", "00000">>,
     <<"city", "Seattle", "wa">>, <<"city", "Jennings", "LA">>,
     <<"county", "King County", "wa">>, <<"county", "Allen", "la">>,
     <<"county", " allen county ", "LA">>, <<"county", "Allen", "zz">>}

\* the frequency records of a page, as _parse_html_response builds them
\* (3848-3869): the first of a county-wide service, the second named after
\* the city
CountyRecord ==
    [Location |-> "0", Name |-> "County Fire", Frequency |-> "155.010",
     Mode |-> "FM", Comment |-> "Fire dispatch"]

CityRecord(city) ==
    [Location |-> "1", Name |-> city \o " PD", Frequency |-> "460.125",
     Mode |-> "FM", Comment |-> city \o " police"]

\* what _parse_html_response makes of the page
ParseOutcomes(city) ==
    {[raises |-> FALSE, records |-> r] :
        r \in {<<>>, <<CountyRecord>>, <<CountyRecord, CityRecord(city)>>}}
    \cup {[raises |-> TRUE, records |-> <<>>]}

InitLookup ==
    /\ fn = "" /\ arg = <<>> /\ ret = <<>> /\ done = FALSE
    /\ disk \in {SaveCache(EmptyCache), Unreadable,
                 SaveCache((<<"acadia", "la">> :> "200")
                           @@ (<<"allen", "la">> :> "200"))}
    /\ disk0 = disk
    /\ bpc = "off" /\ bstate = "" /\ use_search = FALSE
    /\ existing_cache = EmptyCache /\ discovered_cache = EmptyCache
    /\ strategy = {} /\ checked = 0 /\ verified_count = 0
    /\ new_counties = 0 /\ accepted = "none" /\ bresult = <<"pending", 0>>
    /\ rpc = "off" /\ rstate = "" /\ rcounty = "" /\ bs4 \in BOOLEAN
    /\ rtrace = <<>> /\ requested = {} /\ rresult = None
    /\ lpc = "start"
    /\ linput \in LookupInputs
    /\ lfn = linput[1]
    /\ lstate = "" /\ lcounty = "" /\ lcity = ""
    /\ fetched = <<>> /\ response = <<>> /\ lresult = <<"pending", <<>>>>

\* what a step of the entry points leaves alone
LookupFrame ==
    UNCHANGED <<pureVars, disk, bpc, bstate, use_search, existing_cache,
                discovered_cache, strategy, checked, verified_count,
                new_counties, accepted, bresult, bs4, lfn, linput>>

\* return self._fetch_via_scraping(state=state, county=county, city=city)
CallFetch(state, county, city) ==
    /\ lpc' = "fetch"
    /\ lstate' = state /\ lcounty' = county /\ lcity' = city
    /\ UNCHANGED lresult

\* lines 2191-2213
LookupByZipcode ==
    /\ lpc = "start" /\ lfn = "zip"
    /\ \E dataset \in GeocoderAnswers, api \in ZipApiAnswers,
          place \in Places \cup {NoPlace},
          cdataset \in GeocoderAnswers, cweb \in GeocoderAnswers :
        /\ dataset # "found" /\ api # "found" => place = NoPlace
        /\ dataset # "found" /\ api = "found" => place # NoPlace
        /\ LET location_info ==
                   ZipLocation(dataset, api, place,
                               FindCounty(cdataset, cweb, place))
           IN IF location_info = NoPlace /\ dataset # "found"
              THEN /\ lpc' = "done" /\ lresult' = <<"list", <<>>>>
                   /\ UNCHANGED <<lstate, lcounty, lcity>>
              ELSE CallFetch(location_info.state, location_info.county,
                             location_info.city)
    /\ UNCHANGED <<resVars, disk0, fetched, response>>
    /\ LookupFrame

\* lines 2215-2233 and 2269-2271
LookupByCityState ==
    /\ lpc = "start" /\ lfn = "city"
    /\ \E dataset \in GeocoderAnswers, web \in GeocoderAnswers,
          place \in {p \in Places : p.city = linput[2]} :
        LET state == Upper(linput[3])
            county == FindCounty(dataset, web, place)
        IN IF Truthy(county)
           THEN CallFetch(state, county, linput[2])
           ELSE CallFetch(state, None, linput[2])
    /\ UNCHANGED <<resVars, disk0, fetched, response>>
    /\ LookupFrame

\* lines 2273-2284
LookupByCountyState ==
    /\ lpc = "start" /\ lfn = "county"
    /\ CallFetch(Upper(linput[3]),
                 Strip(Replace(Replace(linput[2], " County", ""),
                               " county", "")),
                 None)
    /\ UNCHANGED <<resVars, disk0, fetched, response>>
    /\ LookupFrame

\* _fetch_via_scraping returns value, or raises exc when its handler does
\* not take it
FetchReturns(value, exc) ==
    /\ lpc' = "fetched"
    /\ lresult' = IF exc = "" THEN <<"list", value>>
                  ELSE IF FetchHandles(exc) THEN <<"list", <<>>>>
                  ELSE <<"raise", exc>>

\* lines 2515-2527: the state identifier, and the call of _get_county_id
\* when a county is given
FetchBegin ==
    /\ lpc = "fetch"
    /\ IF lstate = None
       THEN /\ FetchReturns(<<>>, "AttributeError")
            /\ UNCHANGED <<resVars, disk0>>
       ELSE IF StateId(lstate) = ""
       THEN /\ FetchReturns(<<>>, "")
            /\ UNCHANGED <<resVars, disk0>>
       ELSE IF Truthy(lcounty)
       THEN /\ lpc' = "resolving"
            /\ rpc' = "start" /\ rstate' = lstate /\ rcounty' = lcounty
            /\ disk0' = disk
            /\ UNCHANGED <<bs4, rtrace, requested, rresult, lresult>>
       ELSE /\ lpc' = "request"
            /\ UNCHANGED <<resVars, disk0, lresult>>
    /\ UNCHANGED <<lstate, lcounty, lcity, fetched, response>>
    /\ LookupFrame

\* a variant of UrlFor without the state-wide page
UrlFor_countyonly(state_id, county_id) == <<"ctid", county_id>>

\* lines 2529-2534: the county page when an identifier was found, the
\* state-wide page otherwise
UrlFor(state_id, county_id) ==
    IF Truthy(county_id) THEN <<"ctid", county_id>> ELSE <<"stid", state_id>>

\* the county_id of _fetch_via_scraping once the resolver is through
CountyId == IF lpc = "resolving" THEN rresult ELSE None

\* lines 2536-2549: the one request of _fetch_via_scraping and the parse
FetchPage ==
    /\ lpc = "request" \/ (lpc = "resolving" /\ rpc = "done")
    /\ fetched' = Append(fetched, UrlFor(StateId(lstate), CountyId))
    /\ \E answer \in PageAnswers, parsed \in ParseOutcomes(lcity) :
        /\ answer # "200" => parsed = [raises |-> FALSE, records |-> <<>>]
        /\ response' = <<answer, parsed>>
        /\ FetchReturns(parsed.records,
                        IF answer = "timeout" THEN "Timeout"
                        ELSE IF parsed.raises THEN "ValueError" ELSE "")
    /\ UNCHANGED <<resVars, disk0, lstate, lcounty, lcity>>
    /\ LookupFrame

\* lines 2238-2265: the records that mention the city first; the keys read
\* are 'Alpha Tag', 'Description' and 'Location'
CityFirst(frequencies, city) ==
    LET field(freq, key) ==
            IF key \in DOMAIN freq THEN Lower(freq[key]) ELSE ""
        mentions(freq) ==
            \/ Contains(field(freq, "Alpha Tag"), Lower(city))
            \/ Contains(field(freq, "Description"), Lower(city))
            \/ Contains(field(freq, "Location"), Lower(city))
        others(freq) == ~mentions(freq)
    IN SelectSeq(frequencies, mentions) \o SelectSeq(frequencies, others)

\* the entry point returns what _fetch_via_scraping gave; lookup_by_city_state
\* with a county puts the city's records first
LookupReturn ==
    /\ lpc = "fetched"
    /\ lpc' = "done"
    /\ lresult' = IF lresult[1] = "list" /\ lfn = "city" /\ Truthy(lcounty)
                  THEN <<"list", CityFirst(lresult[2], lcity)>>
                  ELSE lresult
    /\ UNCHANGED <<resVars, disk0, lstate, lcounty, lcity, fetched, response>>
    /\ LookupFrame

NextLookup ==
    \/ LookupByZipcode
    \/ LookupByCityState
    \/ LookupByCountyState
    \/ FetchBegin
    \/ NextResolve
    \/ FetchPage
    \/ LookupReturn

SpecLookup == InitLookup /\ [][NextLookup]_vars

(***************************************************************************)
(* C7  one key for every spelling of a county                              *)
(***************************************************************************)
KeyReturned == fn \in {"key_known", "key_resolver"} /\ done

LookedUp == fn = "store_lookup" /\ done

\* C8: every key stored and every key looked up is in one normal form
\* (lower case, trimmed, a trailing County, Parish, Borough or Census Area
\* removed), so an identifier stored by a discovery path for a county is
\* found when the county is looked up under any of its spellings.
C8_StoredIsFound ==
    LookedUp /\ ret[1] # {} => ret[2] \in ret[1]

(***************************************************************************)
(* C1, C2, C6  the verification gate and the merges                        *)
(***************************************************************************)
BuildReturned == bpc = "returned"

BatchSize == Cardinality(DOMAIN discovered_cache)

\* C1: when build_county_cache_for_state has run on a batch whose sample
\* verification rate is below 80%, the store holds exactly the entries it
\* held before the call, in memory and in countyID.db, whichever
\* sub-strategy produced the batch.
C1_RejectedBatchAddsNothing ==
    BuildReturned /\ accepted = "no" =>
        /\ disk = disk0
        /\ existing_cache = LoadCache(disk0)

\* the keys that the store (in memory, on disk) holds now and did not hold
\* before the call
NewKeys == (DOMAIN existing_cache \cup DOMAIN LoadCache(disk))
               \ DOMAIN LoadCache(disk0)

\* C2: for every non-empty batch of size n exactly s = min(5, n) pairs are
\* sampled and verified, and the whole batch is accepted if and only if
\* 5 * verified >= 4 * s: 4 of 5 accepts every pair of the batch, 3 of 5
\* accepts none, and no outcome leaves only a part of the batch in the store.
C2_GateAllOrNothing ==
    /\ (BuildReturned /\ BatchSize > 0 => accepted # "none")
    /\ (accepted # "none" =>
          /\ checked = (IF BatchSize < 5 THEN BatchSize ELSE 5)
          /\ verified_count \in 0..checked
          /\ (accepted = "yes" <=> 5 * verified_count >= 4 * checked)
          /\ (checked = 5 /\ verified_count = 4 => accepted = "yes")
          /\ (checked = 5 /\ verified_count = 3 => accepted = "no"))
    /\ (accepted = "yes" => DOMAIN discovered_cache \subseteq DOMAIN existing_cache
                             /\ LoadCache(disk) = existing_cache)
    /\ (accepted = "no" => NewKeys = {})

\* the gate alone: the sample, the threshold and what the gate merges
GateDecision ==
    accepted # "none" =>
        /\ checked = SampleSize(discovered_cache)
        /\ (accepted = "yes" <=> 5 * verified_count >= 4 * checked)
        /\ (accepted = "no" => existing_cache = LoadCache(disk0)
                                /\ new_counties = 0)

\* no two keys of cache name the same county of the same state
NoSecondKey(cache) ==
    LET name == [k \in DOMAIN cache |-> <<Lower(k[1]), Lower(k[2])>>]
    IN \A k1 \in DOMAIN cache, k2 \in DOMAIN cache :
          name[k1] = name[k2] => k1 = k2

\* the pairs of batch that cache holds already
HeldPairs(cache, batch) ==
    [k \in {x \in DOMAIN batch \cap DOMAIN cache : cache[x] = batch[x]} |->
        batch[k]]

\* the batch was just discovered, or the call has returned
Merged == BuildReturned \/ (bpc = "verifying" /\ checked = 0)

StrategyOrder ==
    <<"static", "cache", "bulk", "scrape", "browse_links", "apps_links",
      "sweep">>

Rank(name) == CHOOSE i \in 1..Len(StrategyOrder) : StrategyOrder[i] = name

Attempted == {rtrace[i][1] : i \in 1..Len(rtrace)}

\* C3: _get_county_id tries the static table, the cache, the bulk discovery
\* of the state (only when the cache holds no county of the state), the
\* targeted page scrape and the sweep in this order, and returns what the
\* first strategy that hits found, attempting none after it; a county of
\* the static table gets the table's identifier whatever the cache holds,
\* and a hit of the table or of the cache issues no network request.
C3_StrategyOrder ==
    LET n == Len(rtrace)
        county_key == KnownKey(rcounty, rstate)
        cache == LoadCache(disk0)
    IN /\ \A i \in 1..(n - 1) :
             /\ Rank(rtrace[i][1]) < Rank(rtrace[i + 1][1])
             /\ rtrace[i][2] = None
       /\ (rpc = "done" =>
             /\ n >= 1 /\ rtrace[1][1] = "static"
             /\ rresult = Found(rtrace)
             /\ (county_key \in DOMAIN KnownTable =>
                   /\ rresult = KnownTable[county_key]
                   /\ Attempted = {"static"}
                   /\ requested = {} /\ disk = disk0)
             /\ (county_key \notin DOMAIN KnownTable
                 /\ county_key \in DOMAIN cache =>
                   /\ rresult = cache[county_key]
                   /\ Attempted = {"static", "cache"}
                   /\ requested = {} /\ disk = disk0)
             /\ ("bulk" \in Attempted <=>
                   /\ county_key \notin DOMAIN KnownTable
                   /\ county_key \notin DOMAIN cache
                   /\ OfState(cache, Lower(rstate)) = {})
             /\ (requested # {} => {"static", "cache"} \subseteq Attempted
                                   /\ Attempted # {"static", "cache"})
             /\ (rresult = None /\ bs4 =>
                   {"static", "cache", "scrape", "browse_links", "apps_links",
                    "sweep"} \subseteq Attempted))

\* the table and the cache hold different identifiers for the county, and
\* the resolver returned the table's
C3_Witness ==
    LET county_key == KnownKey(rcounty, rstate)
        cache == LoadCache(disk0)
    IN /\ rpc = "done"
       /\ county_key \in DOMAIN KnownTable /\ county_key \in DOMAIN cache
       /\ cache[county_key] # KnownTable[county_key]
       /\ rresult = KnownTable[county_key]

(***************************************************************************)
(* C4  the state-wide request when the county is not resolved              *)
(***************************************************************************)
\* _fetch_via_scraping has returned (to its caller, or the caller returned)
FetchReturned == lpc \in {"fetched", "done"}

\* a county was given and _get_county_id returned None
CountyUnresolved == Truthy(lcounty) /\ rpc = "done" /\ rresult = None

\* C4: when a county is given and _get_county_id returns None,
\* _fetch_via_scraping still makes exactly one request, of the state-wide
\* URL (stid), and returns the records parsed from the answer; it neither
\* returns early nor raises; the county URL (ctid) is requested only with
\* an identifier that was resolved.
C4_UnresolvedCountyFetchesState ==
    /\ Len(fetched) <= 1
    /\ \A i \in 1..Len(fetched) :
          fetched[i][1] = "ctid" =>
              rpc = "done" /\ rresult # None /\ fetched[i][2] = rresult
    /\ (FetchReturned /\ CountyUnresolved =>
          /\ fetched = << <<"stid", StateId(lstate)>> >>
          /\ lresult[1] = "list"
          /\ (lpc = "fetched" =>
                lresult[2] = IF response[1] = "200" /\ ~response[2].raises
                             THEN response[2].records ELSE <<>>))

\* the county was not resolved and the records of the state-wide page came
\* back
C4_Witness ==
    /\ lpc = "done" /\ CountyUnresolved
    /\ fetched = << <<"stid", StateId(lstate)>> >>
    /\ response[1] = "200"
    /\ lresult[1] = "list" /\ lresult[2] # <<>>

(***************************************************************************)
(* C5  the entry points return a list                                       *)
(***************************************************************************)
LookupReturned == lpc = "done"

\* C5: whatever the collaborators do (geocoder absent, failing or empty,
\* request timing out or answering non-200, unreadable countyID.db, a page
\* that cannot be parsed), lookup_by_zipcode, lookup_by_city_state and
\* lookup_by_county_state end by returning a list, possibly empty; no
\* exception leaves them.
C5_LookupReturnsList ==
    /\ lresult[1] \in {"pending", "list"}
    /\ (FetchReturned => lresult[1] = "list")
    /\ (lpc \in {"start", "fetch", "resolving", "request"} =>
          lresult[1] = "pending")

\* a call that met a failing collaborator and returned the empty list
C5_Witness ==
    /\ LookupReturned
    /\ lresult = <<"list", <<>>>>
    /\ \/ Len(fetched) = 1 /\ response[1] = "timeout"
       \/ Len(fetched) = 1 /\ response[2].raises
       \/ disk0 = Unreadable /\ rpc = "done"



(***************************************************************************)
(* _parse_html_response: the rows of a frequency table                     *)
(***************************************************************************)
\* int() of one decimal digit
DigitValue(c) == Find(Digits, c, 1) - 1

RECURSIVE ToNat(_)
\* int() of a run of decimal digits
ToNat(s) ==
    IF Len(s) = 0 THEN 0
    ELSE 10 * ToNat(SubSeq(s, 1, Len(s) - 1)) + DigitValue(CharAt(s, Len(s)))

RECURSIVE NatToStr(_)
\* str() of a natural number
NatToStr(n) ==
    IF n < 10 THEN SubSeq(Digits, n + 1, n + 1)
    ELSE NatToStr(n \div 10) \o SubSeq(Digits, (n % 10) + 1, (n % 10) + 1)

\* float() of a text of the form digits "." digits, as the pair of its
\* whole part and the digits of its fraction (the texts followed have few
\* digits, so that the double nearest to them compares as they do)
FloatOf(text) ==
    LET dot == Find(text, ".", 1)
    IN <<ToNat(SubSeq(text, 1, dot - 1)), SubSeq(text, dot + 1, Len(text))>>

\* lo <= freq_val <= hi for whole numbers lo and hi
Within(lo, freq_val, hi) ==
    /\ lo <= freq_val[1]
    /\ \/ freq_val[1] < hi
       \/ freq_val[1] = hi /\ ToNat(freq_val[2]) = 0

\* the column map built from the header texts (lower-cased): for each
\* logical column the place, counted from 1, of the last header that the
\* if/elif chain gives to it, 0 when there is none
ColumnOf(header) ==
    IF Contains(header, "freq") THEN "frequency"
    ELSE IF Contains(header, "tone") THEN "tone"
    ELSE IF Contains(header, "alpha") \/ Contains(header, "tag")
    THEN "alpha_tag"
    ELSE IF Contains(header, "desc") THEN "description"
    ELSE IF Contains(header, "mode") THEN "mode"
    ELSE IF Contains(header, "type") THEN "type"
    ELSE "none"

LogicalColumns ==
    {"frequency", "tone", "alpha_tag", "description", "mode", "type"}

ColMap(headers) ==
    [c \in LogicalColumns |->
        LET places == {i \in 1..Len(headers) : ColumnOf(Lower(headers[i])) = c}
        IN IF places = {} THEN 0
           ELSE CHOOSE i \in places : \A j \in places : j <= i]

\* has_freq_col
HasFreqCol(headers) ==
    \E i \in 1..Len(headers) :
        Contains(Lower(headers[i]), "freq") \/ Contains(Lower(headers[i]), "mhz")

\* the text of the cell of a logical column, "" when the header row has no
\* such column or the row is too short
CellOf(col_map, cells, column) ==
    IF col_map[column] # 0 /\ col_map[column] <= Len(cells)
    THEN Strip(cells[col_map[column]]) ELSE ""

\* lines 3790-3794: the text in which the frequency is looked for
FreqText(col_map, cells) ==
    IF col_map["frequency"] # 0 /\ col_map["frequency"] <= Len(cells)
    THEN Strip(cells[col_map["frequency"]])
    ELSE IF Len(cells) > 0 THEN Strip(cells[1]) ELSE ""

\* a variant of DuplexOf that shifts base stations too
DuplexOf_anytype(type_text, frequency) ==
    LET freq_val == FloatOf(frequency)
    IN IF Within(144, freq_val, 148) THEN <<"+", "0.6">>
       ELSE IF Within(440, freq_val, 450) THEN <<"+", "5.0">>
       ELSE IF Within(150, freq_val, 160) THEN <<"+", "0.0">>
       ELSE <<"", "">>

\* lines 3833-3846: duplex and offset from the upper-cased type text
DuplexOf(type_text, frequency) ==
    IF Contains(type_text, "RM") \/ Contains(type_text, "REPEATER")
    THEN LET freq_val == FloatOf(frequency)
         IN IF Within(144, freq_val, 148) THEN <<"+", "0.6">>
            ELSE IF Within(440, freq_val, 450) THEN <<"+", "5.0">>
            ELSE IF Within(150, freq_val, 160) THEN <<"+", "0.0">>
            ELSE <<"", "">>
    ELSE <<"", "">>

\* lines 3830-3832: the type cell is read only when the row has one
DuplexOfRow(col_map, cells, frequency) ==
    IF col_map["type"] # 0 /\ col_map["type"] <= Len(cells)
    THEN DuplexOf(Upper(Strip(cells[col_map["type"]])), frequency)
    ELSE <<"", "">>

\* a variant of RowFrequency that takes a whole number too
RowFrequency_anynumber(col_map, cells) ==
    IF Len(cells) < 2 THEN ""
    ELSE SearchNumber(FreqText(col_map, cells))

\* lines 3786-3800: the frequency of a data row, "" when the row is passed
\* over (fewer than two cells, or no decimal number in the frequency text)
RowFrequency(col_map, cells) ==
    IF Len(cells) < 2 THEN ""
    ELSE SearchDecimal(FreqText(col_map, cells))

\* the fields that every producer of records sets to ''
UnusedFields ==
    [DtcsCode |-> "", RxDtcsCode |-> "", CrossMode |-> "", Skip |-> "",
     URCALL |-> "", RPT1CALL |-> "", RPT2CALL |-> "", DVCODE |-> ""]

\* lines 3800-3869: the record of a data row; count is len(frequencies),
\* place is "county or state"
RowRecord(col_map, cells, count, place) ==
    LET frequency == RowFrequency(col_map, cells)
        name == IF col_map["alpha_tag"] # 0 /\ col_map["alpha_tag"] <= Len(cells)
                THEN CellOf(col_map, cells, "alpha_tag")
                ELSE CellOf(col_map, cells, "description")
        description == CellOf(col_map, cells, "description")
        tone == _parse_tone(CellOf(col_map, cells, "tone"))
        shift == DuplexOfRow(col_map, cells, frequency)
    IN [Location |-> NatToStr(count),
        Name |-> IF name # "" THEN name
                 ELSE IF description # "" THEN description
                 ELSE "Frequency " \o frequency,
        Frequency |-> frequency,
        Duplex |-> shift[1],
        Offset |-> shift[2],
        Tone |-> tone[1],
        rToneFreq |-> tone[2],
        cToneFreq |-> tone[3],
        DtcsPolarity |-> "NN",
        Mode |-> ModeOfRow(col_map["mode"], cells),
        TStep |-> "25.0",
        Comment |-> IF name = "" THEN ""
                    ELSE IF description # "" THEN description
                    ELSE place \o " - " \o name]
       @@ UnusedFields

\* rows of a table that are followed
MaxRows == 2

\* header rows: the frequency column first, second, or named by MHz only
HeaderRows ==
    {<<"Frequency", "Type">>, <<"Alpha Tag", "Freq", "Type">>,
     <<"MHz", "Description">>}

\* texts of a frequency cell
FreqCells == {"155.010", "146.940 MHz", "Channel 7", "0.0", "000.000"}

\* data rows: one cell, two cells, three cells
DataRows ==
    {<<f>> : f \in FreqCells} \cup {<<f, "RM">> : f \in FreqCells}
    \cup {<<"Fire", f, "RM">> : f \in FreqCells}

Tables ==
    {<<h, rows>> : h \in HeaderRows,
                   rows \in UNION {[1..n -> DataRows] : n \in 0..MaxRows}}

\* arg = <<headers, rows>>; ret = <<number of rows gone through, the list
\* frequencies, the row that gave each record>>
InitParse ==
    /\ fn = "_parse_html_response" /\ done = FALSE
    /\ arg \in Tables
    /\ ret = <<0, <<>>, <<>>>>
    /\ BuildIdle /\ ResolveIdle /\ LookupIdle

\* one turn of "for row in rows[1:]" (3785-3871)
ParseRow ==
    /\ fn = "_parse_html_response" /\ ~done
    /\ HasFreqCol(arg[1])
    /\ ret[1] < Len(arg[2])
    /\ LET cells == arg[2][ret[1] + 1]
           col_map == ColMap(arg[1])
       IN ret' = IF RowFrequency(col_map, cells) = ""
                 THEN <<ret[1] + 1, ret[2], ret[3]>>
                 ELSE <<ret[1] + 1,
                        Append(ret[2], RowRecord(col_map, cells, Len(ret[2]), "CA")),
                        Append(ret[3], ret[1] + 1)>>
    /\ UNCHANGED <<fn, arg, done, buildVars, resVars, lookVars>>

\* return frequencies (3872)
ParseReturn ==
    /\ fn = "_parse_html_response" /\ ~done
    /\ ret[1] = Len(arg[2]) \/ ~HasFreqCol(arg[1])
    /\ done' = TRUE
    /\ UNCHANGED <<fn, arg, ret, buildVars, resVars, lookVars>>

NextParse == ParseRow \/ ParseReturn

SpecParse == InitParse /\ [][NextParse]_vars

\* type cells and frequencies of a single row
TypeCells ==
    {"RM", "rm", "Repeater", "REPEATER (RM)", "BM", "Base", "M", "F", ""}

BandFrequencies ==
    {"143.999", "144.0", "146.940", "148.0", "148.001", "149.5", "150.0",
     "155.010", "160.000", "160.5", "439.9", "440.0", "443.000", "450.0",
     "450.001", "462.5625"}

\* a row under a header row with a type column, with a type column that
\* the row lacks, or without a type column
InitDuplex ==
    /\ PureIdle("row")
    /\ arg \in {<<h, <<f, t>> >> :
                  h \in {<<"Frequency", "Type">>, <<"Frequency", "Mode", "Type">>,
                         <<"Frequency", "Description">>},
                  f \in BandFrequencies, t \in TypeCells}

ExtractRow ==
    /\ fn = "row" /\ ~done
    /\ ret' = RowRecord(ColMap(arg[1]), arg[2], 0, "CA")
    /\ done' = TRUE
    /\ UNCHANGED <<fn, arg, buildVars, resVars, lookVars>>

NextDuplex == ExtractRow

SpecDuplex == InitDuplex /\ [][NextDuplex]_vars

(***************************************************************************)
(* C11  duplex and offset                                                  *)
(***************************************************************************)
RowExtracted == fn = "row" /\ done

\* the type cell of the row, "" when the header has no type column at the
\* place of one of the row's cells
TypeSeen ==
    IF arg[1] = <<"Frequency", "Type">> THEN Upper(Strip(arg[2][2])) ELSE ""

HasTypeColumn == arg[1] = <<"Frequency", "Type">>

RepeaterTyped == Contains(TypeSeen, "RM") \/ Contains(TypeSeen, "REPEATER")

\* the frequency of the row in units of 0.0001 MHz
RowUnits ==
    10000 * FloatOf(arg[2][1])[1]
    + ToNat(SubSeq(FloatOf(arg[2][1])[2] \o "0000", 1, 4))

InBand(lo, hi) == RowUnits >= 10000 * lo /\ RowUnits <= 10000 * hi

\* C11: duplex and offset are inferred only for rows whose type cell
\* contains RM or REPEATER: 144-148 MHz gives ("+", "0.6"), 440-450 MHz
\* gives ("+", "5.0"), 150-160 MHz gives ("+", "0.0"); a repeater row
\* outside these bands, a base row (BM, BASE) at any frequency and a row
\* without a type column get empty duplex and offset; so the offset is
\* non-empty only when the duplex is "+".
C11_DuplexInference ==
    RowExtracted =>
        LET shift == <<ret.Duplex, ret.Offset>>
        IN /\ shift = IF ~RepeaterTyped THEN <<"", "">>
                      ELSE IF InBand(144, 148) THEN <<"+", "0.6">>
                      ELSE IF InBand(440, 450) THEN <<"+", "5.0">>
                      ELSE IF InBand(150, 160) THEN <<"+", "0.0">>
                      ELSE <<"", "">>
           /\ (TypeSeen \in {"BM", "BASE"} => shift = <<"", "">>)
           /\ (~HasTypeColumn => shift = <<"", "">>)
           /\ (ret.Offset # "" => ret.Duplex = "+")

\* a repeater row at 146.940 MHz got the 0.6 MHz shift
C11_Witness ==
    /\ RowExtracted /\ RepeaterTyped /\ arg[2][1] = "146.940"
    /\ ret.Duplex = "+" /\ ret.Offset = "0.6"


(***************************************************************************)
(* C12  rows without a decimal number                                      *)
(***************************************************************************)
ParseReturned == fn = "_parse_html_response" /\ done

\* the text has a digit, a dot and a digit in a row
HasDecimal(text) ==
    \E i \in 1..(Len(text) - 2) :
        IsDigit(CharAt(text, i)) /\ CharAt(text, i + 1) = "."
        /\ IsDigit(CharAt(text, i + 2))

\* the frequency cell of a data row: the cell under the frequency header,
\* the first cell when there is no such header
FrequencyCell(k) ==
    LET cells == arg[2][k]
        at == IF \E i \in 1..Len(arg[1]) : Contains(Lower(arg[1][i]), "freq")
              THEN CHOOSE i \in 1..Len(arg[1]) : Contains(Lower(arg[1][i]), "freq")
              ELSE 1
    IN IF at <= Len(cells) THEN cells[at] ELSE cells[1]

\* C12: a data row whose frequency cell holds no decimal number gives no
\* record and stops nothing: the rows after it are still gone through, and
\* the records are, in the order of the document, those of the rows of two
\* cells or more whose frequency cell holds a decimal number, one each.
C12_RowsWithoutDecimalSkipped ==
    ParseReturned =>
        /\ ret[1] = Len(arg[2])
        /\ Len(ret[2]) = Len(ret[3])
        /\ \A i \in 1..Len(ret[3]) :
              /\ ret[3][i] \in 1..Len(arg[2])
              /\ HasDecimal(FrequencyCell(ret[3][i]))
              /\ ret[2][i].Frequency # ""
              /\ Contains(FrequencyCell(ret[3][i]), ret[2][i].Frequency)
              /\ \A j \in 1..(i - 1) : ret[3][j] < ret[3][i]
        /\ \A k \in 1..Len(arg[2]) :
              /\ (~HasDecimal(FrequencyCell(k))
                    => \A i \in 1..Len(ret[3]) : ret[3][i] # k)
              /\ (HasDecimal(FrequencyCell(k)) /\ Len(arg[2][k]) >= 2
                    => \E i \in 1..Len(ret[3]) : ret[3][i] = k)

\* a row without a decimal number was passed over and the row after it
\* gave the only record
C12_Witness ==
    /\ ParseReturned /\ Len(arg[2]) = 2
    /\ ~HasDecimal(FrequencyCell(1)) /\ Len(arg[2][1]) >= 2
    /\ ret[3] = <<2>>

(***************************************************************************)
(* C20  the frequency of a record                                          *)
(***************************************************************************)
\* the text is digits, a dot, digits, and stands for a number above zero
PositiveDecimal(text) ==
    /\ SearchDecimal(text) = text /\ text # ""
    /\ FloatOf(text)[1] > 0 \/ ToNat(FloatOf(text)[2]) > 0

\* C20: every record returned by _parse_html_response has a Frequency
\* that reads as a decimal number above zero; a row whose frequency cell
\* reads 0.0 or 000.000 gives no record.
C20_FrequencyPositive ==
    ParseReturned =>
        /\ \A i \in 1..Len(ret[2]) : PositiveDecimal(ret[2][i].Frequency)
        /\ \A i \in 1..Len(ret[3]) :
              FrequencyCell(ret[3][i]) \notin {"0.0", "000.000"}


(***************************************************************************)
(* filter_frequencies                                                      *)
(***************************************************************************)
\* freq.get(key, default)
Get(freq, key, default) == IF key \in DOMAIN freq THEN freq[key] ELSE default

\* a variant of Passes whose FM rule leaves out the empty mode
Passes_noempty(filter_mode, mode) ==
    IF filter_mode \in {"FM", "ANALOG"}
    THEN mode \in {"FM", "AM"} \/ Contains(mode, "FM") \/ Contains(mode, "ANALOG")
    ELSE IF filter_mode \in {"DIGITAL", "ENCRYPTED"}
    THEN mode \in {"DIGITAL", "DMR", "P25", "NXDN", "D-STAR", "C4FM"}
    ELSE IF filter_mode = "DMR" THEN Contains(mode, "DMR")
    ELSE IF filter_mode = "P25"
    THEN Contains(mode, "P25") \/ Contains(mode, "DIGITAL")
    ELSE Contains(mode, filter_mode) \/ Contains(filter_mode, mode)

\* lines 2173-2187: the test on one record, filter_mode and mode upper-cased
Passes(filter_mode, mode) ==
    IF filter_mode \in {"FM", "ANALOG"}
    THEN mode \in {"FM", "AM", ""} \/ Contains(mode, "FM")
         \/ Contains(mode, "ANALOG")
    ELSE IF filter_mode \in {"DIGITAL", "ENCRYPTED"}
    THEN mode \in {"DIGITAL", "DMR", "P25", "NXDN", "D-STAR", "C4FM"}
    ELSE IF filter_mode = "DMR" THEN Contains(mode, "DMR")
    ELSE IF filter_mode = "P25"
    THEN Contains(mode, "P25") \/ Contains(mode, "DIGITAL")
    ELSE Contains(mode, filter_mode) \/ Contains(filter_mode, mode)

\* filter_mode is <<>> for None and <<text>> for a text
filter_frequencies(frequencies, filter_mode) ==
    IF filter_mode = <<>> \/ filter_mode = <<"">> THEN frequencies
    ELSE LET token == Strip(Upper(filter_mode[1]))
             Keep(freq) == Passes(token, Upper(Get(freq, "Mode", "")))
         IN SelectSeq(frequencies, Keep)

\* records of a list that is filtered
MaxRecords == 3

\* the Mode of a record; "absent" stands for a record without the key
RecordModes == {"FM", "AM", "", "absent", "DMR", "Digital", "NFM", "P25"}

FilterTokens ==
    {<<>>, <<"">>, <<"FM">>, <<" fm">>, <<"Analog">>, <<"Digital">>,
     <<"ENCRYPTED">>, <<"dmr">>, <<"P25">>, <<"N">>, <<"P25 DIGITAL">>}

\* the i-th record of a list, named by its place
ModeRecord(i, m) ==
    IF m = "absent" THEN [Name |-> "R" \o NatToStr(i)]
    ELSE [Name |-> "R" \o NatToStr(i), Mode |-> m]

RecordLists ==
    {[i \in DOMAIN modes |-> ModeRecord(i, modes[i])] :
        modes \in UNION {[1..n -> RecordModes] : n \in 0..MaxRecords}}

InitFilter ==
    /\ PureIdle("filter_frequencies")
    /\ arg \in RecordLists \X FilterTokens

Filter ==
    /\ fn = "filter_frequencies" /\ ~done
    /\ ret' = filter_frequencies(arg[1], arg[2])
    /\ done' = TRUE
    /\ UNCHANGED <<fn, arg, buildVars, resVars, lookVars>>

NextFilter == Filter

SpecFilter == InitFilter /\ [][NextFilter]_vars

(***************************************************************************)
(* C13  filter semantics                                                   *)
(***************************************************************************)
Filtered == fn = "filter_frequencies" /\ done

\* the mode of the i-th record given, upper-cased, "" without the key
GivenMode(i) == IF "Mode" \in DOMAIN arg[1][i] THEN Upper(arg[1][i].Mode) ELSE ""

\* the token given, upper-cased and stripped
GivenToken == Strip(Upper(arg[2][1]))

\* the rule of the token's category, for the i-th record given
RuleHolds(i) ==
    LET mode == GivenMode(i)
        token == GivenToken
    IN CASE token \in {"FM", "ANALOG"} ->
              \/ mode = "" \/ mode = "FM" \/ mode = "AM"
              \/ Contains(mode, "FM") \/ Contains(mode, "ANALOG")
         [] token \in {"DIGITAL", "ENCRYPTED"} ->
              \E d \in {"Digital", "DMR", "P25", "NXDN", "D-STAR", "C4FM"} :
                  mode = Upper(d)
         [] token = "DMR" -> Contains(mode, "DMR")
         [] token = "P25" -> Contains(mode, "P25") \/ Contains(mode, "DIGITAL")
         [] OTHER -> Contains(mode, token) \/ Contains(token, mode)

\* the places of the records given that the rule lets through
Passing == {i \in 1..Len(arg[1]) : RuleHolds(i)}

\* C13: filter_frequencies compares without regard to case and returns, in
\* the order given, exactly the records that satisfy the rule of the
\* token's category (FM/ANALOG, DIGITAL/ENCRYPTED, DMR, P25, any other
\* token); an empty or absent token returns the list unchanged; the list
\* (FM, DMR, empty) filtered by "FM" gives its first and third record.
C13_FilterSemantics ==
    Filtered =>
        /\ (arg[2] \in {<<>>, <<"">>} => ret = arg[1])
        /\ (arg[2] \notin {<<>>, <<"">>} =>
              /\ Len(ret) = Cardinality(Passing)
              /\ \A k \in 1..Len(ret) :
                    \E i \in Passing :
                        /\ ret[k] = arg[1][i]
                        /\ Cardinality({j \in Passing : j < i}) = k - 1)
        /\ (/\ Len(arg[1]) = 3 /\ arg[2] = <<"FM">>
            /\ GivenMode(1) = "FM" /\ GivenMode(2) = "DMR" /\ GivenMode(3) = ""
            => ret = <<arg[1][1], arg[1][3]>>)

\* the list (FM, DMR, empty) was filtered by "FM" and lost its second record
C13_Witness ==
    /\ Filtered /\ Len(arg[1]) = 3 /\ arg[2] = <<"FM">>
    /\ GivenMode(1) = "FM" /\ GivenMode(2) = "DMR"
    /\ "Mode" \in DOMAIN arg[1][3] /\ GivenMode(3) = ""
    /\ Len(ret) = 2


(***************************************************************************)
(* generate_gmrs_frs_channels, generate_noaa_weather_channels              *)
(***************************************************************************)
RECURSIVE Power10(_)
Power10(places) == IF places = 0 THEN 1 ELSE 10 * Power10(places - 1)

RECURSIVE ZeroPadded(_, _)
\* the decimal digits of n, with zeros in front up to a width
ZeroPadded(n, width) ==
    IF width = 0 THEN ""
    ELSE ZeroPadded(n \div 10, width - 1) \o NatToStr(n % 10)

\* a variant of FixedText that keeps one digit less (the last one cut off)
FixedText_short(value, places) ==
    NatToStr(value \div Power10(places)) \o "."
    \o ZeroPadded((value % Power10(places)) \div 10, places - 1)

\* f"{x:.4f}" and f"{x:.3f}" of a number with no more decimal digits than
\* places, held as the whole number value = x * 10^places
FixedText(value, places) ==
    NatToStr(value \div Power10(places)) \o "."
    \o ZeroPadded(value % Power10(places), places)

\* channels (2293-2316), the frequency in units of 0.0001 MHz
GmrsChannels ==
    <<[channel |-> 1, frequency |-> 4625625, name |-> "FRS/GMRS 1",
      power |-> "2W FRS / 5W GMRS"],
     [channel |-> 2, frequency |-> 4625875, name |-> "FRS/GMRS 2",
      power |-> "2W FRS / 5W GMRS"],
     [channel |-> 3, frequency |-> 4626125, name |-> "FRS/GMRS 3",
      power |-> "2W FRS / 5W GMRS"],
     [channel |-> 4, frequency |-> 4626375, name |-> "FRS/GMRS 4",
      power |-> "2W FRS / 5W GMRS"],
     [channel |-> 5, frequency |-> 4626625, name |-> "FRS/GMRS 5",
      power |-> "2W FRS / 5W GMRS"],
     [channel |-> 6, frequency |-> 4626875, name |-> "FRS/GMRS 6",
      power |-> "2W FRS / 5W GMRS"],
     [channel |-> 7, frequency |-> 4627125, name |-> "FRS/GMRS 7",
      power |-> "2W FRS / 5W GMRS"],
     [channel |-> 8, frequency |-> 4675625, name |-> "FRS 8",
      power |-> "0.5W FRS only"],
     [channel |-> 9, frequency |-> 4675875, name |-> "FRS 9",
      power |-> "0.5W FRS only"],
     [channel |-> 10, frequency |-> 4676125, name |-> "FRS 10",
      power |-> "0.5W FRS only"],
     [channel |-> 11, frequency |-> 4676375, name |-> "FRS 11",
      power |-> "0.5W FRS only"],
     [channel |-> 12, frequency |-> 4676625, name |-> "FRS 12",
      power |-> "0.5W FRS only"],
     [channel |-> 13, frequency |-> 4676875, name |-> "FRS 13",
      power |-> "0.5W FRS only"],
     [channel |-> 14, frequency |-> 4677125, name |-> "FRS 14",
      power |-> "0.5W FRS only"],
     [channel |-> 15, frequency |-> 4625500, name |-> "FRS/GMRS 15",
      power |-> "2W FRS / 50W GMRS"],
     [channel |-> 16, frequency |-> 4625750, name |-> "FRS/GMRS 16",
      power |-> "2W FRS / 50W GMRS"],
     [channel |-> 17, frequency |-> 4626000, name |-> "FRS/GMRS 17",
      power |-> "2W FRS / 50W GMRS"],
     [channel |-> 18, frequency |-> 4626250, name |-> "FRS/GMRS 18",
      power |-> "2W FRS / 50W GMRS"],
     [channel |-> 19, frequency |-> 4626500, name |-> "FRS/GMRS 19",
      power |-> "2W FRS / 50W GMRS"],
     [channel |-> 20, frequency |-> 4626750, name |-> "FRS/GMRS 20",
      power |-> "2W FRS / 50W GMRS"],
     [channel |-> 21, frequency |-> 4627000, name |-> "FRS/GMRS 21",
      power |-> "2W FRS / 50W GMRS"],
     [channel |-> 22, frequency |-> 4627250, name |-> "FRS/GMRS 22",
      power |-> "2W FRS / 50W GMRS"]>>

\* freq_dict of a channel (2320-2341)
GmrsRecord(ch) ==
    [Location |-> "", Name |-> ch.name,
     Frequency |-> FixedText(ch.frequency, 4),
     Duplex |-> "", Offset |-> "", Tone |-> "", rToneFreq |-> "",
     cToneFreq |-> "", DtcsPolarity |-> "", Mode |-> "FM",
     TStep |-> "5.00",
     Comment |-> "Channel " \o NatToStr(ch.channel) \o " - " \o ch.power]
    @@ UnusedFields

\* a variant of weather_frequencies with one channel moved
weather_frequencies_moved ==
    <<162400, 162425, 162450, 162475, 162500, 162525, 162540>>

\* weather_frequencies (2356-2364), in kHz
weather_frequencies ==
    <<162400, 162425, 162450, 162475, 162500, 162525, 162550>>

RECURSIVE Join(_, _)
\* sep.join(parts)
Join(sep, parts) ==
    IF Len(parts) = 0 THEN ""
    ELSE IF Len(parts) = 1 THEN parts[1]
    ELSE parts[1] \o sep \o Join(sep, Tail(parts))

\* location_note (2366-2376); location_info is <<>> for None and <<dict>>
\* for a dict
LocationNote(location_info) ==
    IF location_info = <<>> THEN ""
    ELSE LET info == location_info[1]
             city == Get(info, "city", "")
             county == Get(info, "county", "")
             state == Get(info, "state", "")
             parts == (IF city # "" THEN <<city>> ELSE <<>>)
                      \o (IF county # "" THEN <<county \o " County">> ELSE <<>>)
                      \o (IF state # "" THEN <<state>> ELSE <<>>)
         IN IF DOMAIN info # {} /\ Len(parts) > 0
            THEN " for " \o Join(", ", parts) ELSE ""

\* freq_dict of the idx-th weather channel (2380-2401)
NoaaRecord(idx, location_note) ==
    [Location |-> "", Name |-> "NOAA WX " \o NatToStr(idx),
     Frequency |-> FixedText(weather_frequencies[idx], 3),
     Duplex |-> "", Offset |-> "", Tone |-> "", rToneFreq |-> "",
     cToneFreq |-> "", DtcsPolarity |-> "", Mode |-> "FM",
     TStep |-> "5.00",
     Comment |-> "NOAA Weather Radio "
                 \o FixedText(weather_frequencies[idx], 3) \o " MHz"
                 \o location_note
                 \o " - Test all frequencies to find active transmitter"]
    @@ UnusedFields

\* values of location_info: None, and the dicts over the keys city, county
\* and state (each key missing, or with one of its values)
LocationInfos ==
    {<<>>} \cup
    {<<d>> : d \in UNION {[keys -> {"", "Irvine"}] :
                              keys \in SUBSET {"city", "county", "state"}}}

\* arg = location_info, ret = frequencies
InitChannels ==
    /\ done = FALSE /\ ret = <<>>
    /\ \/ fn = "generate_gmrs_frs_channels" /\ arg = <<>>
       \/ fn = "generate_noaa_weather_channels" /\ arg \in LocationInfos
    /\ BuildIdle /\ ResolveIdle /\ LookupIdle

\* one turn of "for ch in channels" (2319-2342)
GmrsChannel ==
    /\ fn = "generate_gmrs_frs_channels" /\ ~done
    /\ Len(ret) < Len(GmrsChannels)
    /\ ret' = Append(ret, GmrsRecord(GmrsChannels[Len(ret) + 1]))
    /\ UNCHANGED <<fn, arg, done, buildVars, resVars, lookVars>>

\* one turn of "for idx, freq in enumerate(weather_frequencies, 1)"
\* (2379-2402)
NoaaChannel ==
    /\ fn = "generate_noaa_weather_channels" /\ ~done
    /\ Len(ret) < Len(weather_frequencies)
    /\ ret' = Append(ret, NoaaRecord(Len(ret) + 1, LocationNote(arg)))
    /\ UNCHANGED <<fn, arg, done, buildVars, resVars, lookVars>>

\* return frequencies (2344, 2404)
ChannelsReturn ==
    /\ ~done
    /\ \/ fn = "generate_gmrs_frs_channels" /\ Len(ret) = Len(GmrsChannels)
       \/ /\ fn = "generate_noaa_weather_channels"
          /\ Len(ret) = Len(weather_frequencies)
    /\ done' = TRUE
    /\ UNCHANGED <<fn, arg, ret, buildVars, resVars, lookVars>>

NextChannels == GmrsChannel \/ NoaaChannel \/ ChannelsReturn

SpecChannels == InitChannels /\ [][NextChannels]_vars

(***************************************************************************)
(* C14  the GMRS/FRS channels                                              *)
(***************************************************************************)
GmrsReturned == fn = "generate_gmrs_frs_channels" /\ done

\* a text digits "." digits of up to four decimals, in units of 0.0001
TenThousandths(text) ==
    10000 * FloatOf(text)[1] + ToNat(SubSeq(FloatOf(text)[2] \o "0000", 1, 4))

\* C14: generate_gmrs_frs_channels returns exactly 22 records, one for
\* each of the channels 1..22 in that order, with frequencies that differ
\* two by two; channel 1 is at 462.5625, channel 14 at 467.7125, and
\* every frequency lies in 462.5500..467.7125 MHz.
C14_GmrsChannels ==
    GmrsReturned =>
        /\ Len(ret) = 22
        /\ \A i \in 1..Len(ret) :
              /\ Find(ret[i].Comment, "Channel " \o NatToStr(i) \o " ", 1) = 1
              /\ TenThousandths(ret[i].Frequency) >= 4625500
              /\ TenThousandths(ret[i].Frequency) <= 4677125
              /\ \A j \in 1..Len(ret) :
                    i # j => ret[i].Frequency # ret[j].Frequency
        /\ ret[1].Frequency = "462.5625"
        /\ ret[14].Frequency = "467.7125"

\* the list was returned with the record of channel 14 in it
C14_Witness ==
    GmrsReturned /\ Len(ret) >= 14 /\ ret[14].Name = "FRS 14"

(***************************************************************************)
(* C15  the NOAA weather channels                                          *)
(***************************************************************************)
NoaaReturned == fn = "generate_noaa_weather_channels" /\ done

\* a text digits "." digits of up to three decimals, in kHz
Thousandths(text) ==
    1000 * FloatOf(text)[1] + ToNat(SubSeq(FloatOf(text)[2] \o "000", 1, 3))

\* C15: generate_noaa_weather_channels returns exactly 7 records for every
\* location_info, None too, at 162.400 up to 162.550 MHz in rising order,
\* each 0.025 MHz above the one before; the location changes nothing but
\* the Comment.
C15_NoaaChannels ==
    NoaaReturned =>
        /\ Len(ret) = 7
        /\ ret[1].Frequency = "162.400" /\ ret[7].Frequency = "162.550"
        /\ \A i \in 1..(Len(ret) - 1) :
              Thousandths(ret[i + 1].Frequency)
                  = Thousandths(ret[i].Frequency) + 25
        /\ \A i \in 1..Len(ret) :
              /\ ret[i].Frequency = FixedText(Thousandths(ret[i].Frequency), 3)
              /\ ret[i].Name = "NOAA WX " \o NatToStr(i)
              /\ ret[i].Mode = "FM" /\ ret[i].TStep = "5.00"
              /\ \A field \in DOMAIN ret[i] \ {"Name", "Frequency", "Mode",
                                                "TStep", "Comment"} :
                    ret[i][field] = ""

\* the list was returned for a location with a city and a state
C15_Witness ==
    /\ NoaaReturned /\ arg # <<>>
    /\ DOMAIN arg[1] = {"city", "state"} /\ arg[1].city = "Irvine"
    /\ Contains(ret[7].Comment, " for Irvine, ")


(***************************************************************************)
(* _verify_county_with_api                                                 *)
(***************************************************************************)
\* s.startswith(prefix)
StartsWith(s, prefix) ==
    Len(prefix) <= Len(s) /\ SubSeq(s, 1, Len(prefix)) = prefix

\* the address dicts of a geocoder result: each of state_code, state and
\* county missing or with one of its values
Addresses ==
    UNION {{[key \in keys |-> IF key = "state_code" THEN state_code
                              ELSE IF key = "state" THEN "California"
                              ELSE county] :
                state_code \in {"CA", "ca", "NV"},
                county \in {"Orange County", "Los Angeles County", ""}} :
           keys \in SUBSET {"state_code", "state", "county"}}

\* what self.session.get and response.json() give: an exception, a status
\* other than 200, a body that is not JSON, a JSON value that is a dict, a
\* list of texts, or a list whose first element is a dict without address,
\* with address null, or with an address dict
Responses ==
    {[kind |-> "raise", exc |-> e] : e \in {"ConnectionError", "Timeout"}}
    \cup {[kind |-> "status", status_code |-> s] : s \in {404, 429, 500}}
    \cup {[kind |-> "not_json"]}
    \cup {[kind |-> "dict", size |-> n] : n \in {0, 1}}
    \cup {[kind |-> "list", size |-> n, first |-> "none"] : n \in {0}}
    \cup {[kind |-> "list", size |-> 1, first |-> f] :
              f \in {"text", "no_address", "null_address"}}
    \cup {[kind |-> "list", size |-> 1, first |-> "address", address |-> a] :
              a \in Addresses}

\* lines 3348-3358 for data[0] with the dict address
VerifyAddress(county_name, state, address) ==
    LET code == Upper(Get(address, "state_code", ""))
        result_state == IF code # "" THEN code
                        ELSE Upper(Get(address, "state", ""))
        result_county == Lower(Get(address, "county", ""))
    IN IF Contains(result_state, Upper(state))
          \/ Contains(Upper(state), result_state)
       THEN IF result_county # ""
            THEN \/ Contains(result_county, Lower(county_name))
                 \/ StartsWith(result_county, Lower(county_name))
            ELSE TRUE
       ELSE FALSE

\* lines 3326-3362: an exception anywhere in the try block gives True
\* (session.get raising, json() raising ValueError, data[0] of a dict
\* raising KeyError, .get of a text or of None raising AttributeError); a
\* status other than 200 and an empty value fall through to return False
_verify_county_with_api(county_name, state, got) ==
    CASE got.kind = "raise" -> TRUE
      [] got.kind = "status" -> FALSE
      [] got.kind = "not_json" -> TRUE
      [] got.kind = "dict" -> IF got.size = 0 THEN FALSE ELSE TRUE
      [] got.kind = "list" ->
            IF got.size = 0 THEN FALSE
            ELSE IF got.first \in {"text", "null_address"} THEN TRUE
            ELSE IF got.first = "no_address"
            THEN VerifyAddress(county_name, state, <<>>)
            ELSE VerifyAddress(county_name, state, got.address)

\* arg = <<county_name, state, what the request gives>>
InitVerify ==
    /\ PureIdle("_verify_county_with_api")
    /\ arg \in {"orange", "los_angeles"} \X {"CA", "ca", "AL"} \X Responses

Verify ==
    /\ fn = "_verify_county_with_api" /\ ~done
    /\ ret' = _verify_county_with_api(arg[1], arg[2], arg[3])
    /\ done' = TRUE
    /\ UNCHANGED <<fn, arg, buildVars, resVars, lookVars>>

NextVerify == Verify

SpecVerify == InitVerify /\ [][NextVerify]_vars

(***************************************************************************)
(* C16  verification fails open                                            *)
(***************************************************************************)
Verified == fn = "_verify_county_with_api" /\ done

\* the request failed: connection error or timeout, a status other than
\* 200, a body that is not JSON, or a JSON value of another shape than a
\* list of dicts with an address dict
RequestFailed ==
    \/ arg[3].kind \in {"raise", "status", "not_json", "dict"}
    \/ arg[3].kind = "list" /\ arg[3].first \in {"text", "null_address"}

\* C16: _verify_county_with_api returns True on every network or parse
\* failure of the geocoding request (connection error, timeout, a status
\* other than 200, a body that is not JSON, a response of unexpected
\* shape), never False.
C16_VerifyFailsOpen == Verified /\ RequestFailed => ret = TRUE


(***************************************************************************)
(* C19  the records of the city first                                      *)
(***************************************************************************)
\* lookup_by_city_state returned after its county was found and the page
\* of the county gave records
CityLookupReturned ==
    /\ lpc = "done" /\ lfn = "city" /\ Truthy(lcounty)
    /\ Len(fetched) = 1 /\ response[1] = "200" /\ ~response[2].raises

\* the name or the description of the record mentions the city
MentionsCity(freq) ==
    \/ Contains(Lower(freq.Name), Lower(lcity))
    \/ Contains(Lower(freq.Comment), Lower(lcity))

NoMention(freq) == ~MentionsCity(freq)

\* C19: when the county of the city is resolved, lookup_by_city_state
\* returns the records fetched for the county, none lost and none twice,
\* with every record whose name or description mentions the city (in any
\* case) before every record that does not, each group in its fetched
\* order.
C19_CityRecordsFirst ==
    CityLookupReturned =>
        /\ lresult[1] = "list"
        /\ lresult[2] = SelectSeq(response[2].records, MentionsCity)
                        \o SelectSeq(response[2].records, NoMention)


(***************************************************************************)
(* to_chirp_csv, after extraction, lookup and filter                       *)
(***************************************************************************)
RECURSIVE ParseRows(_, _, _, _)
\* the loop "for row in rows[1:]" run to its end (3785-3870)
ParseRows(col_map, rows, frequencies, place) ==
    IF Len(rows) = 0 THEN frequencies
    ELSE ParseRows(col_map, Tail(rows),
                   IF RowFrequency(col_map, Head(rows)) = "" THEN frequencies
                   ELSE Append(frequencies,
                               RowRecord(col_map, Head(rows),
                                         Len(frequencies), place)),
                   place)

\* int(text) succeeds: an optional sign and digits
IsInt(text) ==
    LET digits == IF Len(text) > 0 /\ CharAt(text, 1) = "-" THEN Tail(text)
                  ELSE text
    IN Len(digits) > 0 /\ \A i \in 1..Len(digits) : IsDigit(CharAt(digits, i))

\* lines 3950-3960: start_location; existing is the list of the Location
\* texts of the rows of the file
StartLocation(file_exists, existing) ==
    IF file_exists /\ Len(existing) > 0
    THEN LET last == existing[Len(existing)]
         IN IF ~IsInt(last) THEN 0
            ELSE IF CharAt(last, 1) = "-" THEN 1 - ToNat(Tail(last))
            ELSE ToNat(last) + 1
    ELSE 0

\* lines 3968-3976: the rows written; a Location that is not empty is kept
\* unless rows are appended to a file that exists
WrittenRows(frequencies, start_location, file_exists) ==
    [i \in 1..Len(frequencies) |->
        IF Get(frequencies[i], "Location", "") = "" \/ file_exists
        THEN [frequencies[i] EXCEPT !.Location = NatToStr(start_location + i - 1)]
        ELSE frequencies[i]]

\* records of a batch that is exported
MaxBatch == 3

\* the header row and the data rows of the page the batch comes from
BatchHeaders == <<"Frequency", "Mode", "Alpha Tag">>

BatchRows ==
    {<<"155.010", "FM", "County Fire">>, <<"460.125", "DMR", "Irvine PD">>,
     <<"n/a", "FM", "Closed">>}

\* where a batch comes from: a page of the site, or the weather channels
BatchSources ==
    {[kind |-> "page", rows |-> rows] :
        rows \in UNION {[1..n -> BatchRows] : n \in 0..MaxBatch}}
    \cup {[kind |-> "noaa", rows |-> <<>>]}

\* the output file before the call: missing, or a CSV with a header and
\* rows, given by the Location texts of its rows
OutputFiles ==
    {[exists |-> FALSE, rows |-> <<>>], [exists |-> TRUE, rows |-> <<>>],
     [exists |-> TRUE, rows |-> <<"3", "4">>],
     [exists |-> TRUE, rows |-> <<"0", "">>]}

\* arg: the source, the entry point (its city), the filter, append and the
\* output file; ret: the stage reached, the batch, and the Location texts
\* of the rows of the file after the call
InitExport ==
    /\ fn = "to_chirp_csv" /\ done = FALSE
    /\ arg \in [source : BatchSources, lookup : {"city", "county"},
                city : {"Irvine"}, filter_mode : {<<>>, <<"FM">>, <<"DMR">>},
                append : BOOLEAN, file : OutputFiles]
    /\ ret = [stage |-> "start", frequencies |-> <<>>, written |-> <<>>,
              csv |-> arg.file]
    /\ BuildIdle /\ ResolveIdle /\ LookupIdle

\* the batch is fetched: lookup_by_city_state puts the city's records
\* first, lookup_by_county_state returns the records of the page; the
\* weather channels come from generate_noaa_weather_channels
FetchBatch ==
    /\ fn = "to_chirp_csv" /\ ret.stage = "start"
    /\ LET parsed == ParseRows(ColMap(BatchHeaders), arg.source.rows, <<>>, "CA")
           noaa == [i \in 1..Len(weather_frequencies) |-> NoaaRecord(i, "")]
       IN ret' = [ret EXCEPT
                    !.stage = "fetched",
                    !.frequencies =
                        IF arg.source.kind = "noaa" THEN noaa
                        ELSE IF arg.lookup = "city"
                        THEN CityFirst(parsed, arg.city) ELSE parsed]
    /\ UNCHANGED <<fn, arg, done, buildVars, resVars, lookVars>>

\* frequencies = converter.filter_frequencies(frequencies, args.filter)
FilterBatch ==
    /\ fn = "to_chirp_csv" /\ ret.stage = "fetched"
    /\ ret' = [ret EXCEPT
                 !.stage = "filtered",
                 !.frequencies = filter_frequencies(ret.frequencies,
                                                    arg.filter_mode)]
    /\ UNCHANGED <<fn, arg, done, buildVars, resVars, lookVars>>

\* to_chirp_csv (3934-3979): nothing is written for an empty batch; mode
\* 'w' replaces the file, mode 'a' adds to it
ExportCsv ==
    /\ fn = "to_chirp_csv" /\ ret.stage = "filtered" /\ ~done
    /\ LET file_exists == arg.file.exists /\ arg.append
           start_location == StartLocation(file_exists, arg.file.rows)
           rows == WrittenRows(ret.frequencies, start_location, file_exists)
           locations == [i \in 1..Len(rows) |-> rows[i].Location]
       IN ret' = IF Len(ret.frequencies) = 0 THEN [ret EXCEPT !.stage = "exported"]
                 ELSE [ret EXCEPT
                         !.stage = "exported",
                         !.frequencies = rows,
                         !.written = locations,
                         !.csv = [exists |-> TRUE,
                                  rows |-> IF arg.append
                                           THEN arg.file.rows \o locations
                                           ELSE locations]]
    /\ done' = TRUE
    /\ UNCHANGED <<fn, arg, buildVars, resVars, lookVars>>

NextExport == FetchBatch \/ FilterBatch \/ ExportCsv

SpecExport == InitExport /\ [][NextExport]_vars

(***************************************************************************)
(* C17  Location is given at export                                        *)
(***************************************************************************)
Exported == fn = "to_chirp_csv" /\ done

\* C17: in every CSV written by to_chirp_csv from one batch, the Location
\* values are given at export as consecutive whole numbers, none twice and
\* none left out, whatever filter_frequencies removed and
\* lookup_by_city_state moved since extraction; the Location given to a
\* record at extraction does not reach the file.
C17_LocationSequential ==
    Exported =>
        /\ \A i \in 1..Len(ret.written) : IsInt(ret.written[i])
        /\ \A i \in 1..(Len(ret.written) - 1) :
              ToNat(ret.written[i + 1]) = ToNat(ret.written[i]) + 1


(***************************************************************************)
(* _save_county_cache under a user interrupt                               *)
(***************************************************************************)
\* countyID.db as a file: the document it holds or is being given, the
\* number of its entries that reached the file, and whether the text is
\* whole (a text cut short is not JSON)
WholeFile(doc) ==
    [doc |-> doc, written |-> Cardinality(DOMAIN doc), whole |-> TRUE]

\* _load_county_cache of the file: json.load raises on a text cut short,
\* the except clause at 2638 gives {}
ReadFile(file) ==
    IF file.whole THEN LoadCache(file.doc) ELSE LoadCache(Unreadable)

\* pairs found since the cache was loaded
FoundSince ==
    {EmptyCache, (<<"butte", "ca">> :> "300"),
     (<<"butte", "ca">> :> "300") @@ (<<"allen", "la">> :> "300")}

\* disk0 is the file before the call, existing_cache the dictionary handed
\* to _save_county_cache, ret what a later run loads
InitSave ==
    /\ fn = "_save_county_cache" /\ arg = <<>> /\ ret = <<>> /\ done = FALSE
    /\ disk0 \in {WholeFile(SaveCache(c)) : c \in InitialCaches}
    /\ disk = disk0
    /\ existing_cache \in {Update(LoadCache(disk0.doc), found) :
                              found \in FoundSince}
    /\ bpc = "saving"
    /\ bstate = "" /\ use_search = FALSE /\ discovered_cache = <<>>
    /\ strategy = {} /\ checked = 0 /\ verified_count = 0
    /\ new_counties = 0 /\ accepted = "none" /\ bresult = <<"pending", 0>>
    /\ ResolveIdle /\ LookupIdle

\* what a step of the save leaves alone
SaveFrame ==
    UNCHANGED <<fn, arg, done, disk0, bstate, use_search, existing_cache,
                discovered_cache, strategy, checked, verified_count,
                new_counties, accepted, bresult, resVars, lookVars>>

\* open(cache_file, 'w') (2675): the file is cut to nothing
SaveOpen ==
    /\ bpc = "saving"
    /\ disk' = [doc |-> SaveCache(existing_cache), written |-> 0,
                whole |-> FALSE]
    /\ bpc' = "writing"
    /\ UNCHANGED ret
    /\ SaveFrame

\* json.dump (2676) hands the text to the file piece by piece
SaveWrite ==
    /\ bpc = "writing" /\ disk.written < Cardinality(DOMAIN disk.doc)
    /\ disk' = [disk EXCEPT !.written = disk.written + 1]
    /\ UNCHANGED <<bpc, ret>>
    /\ SaveFrame

\* the end of json.dump and of the with block: the text is whole
SaveClose ==
    /\ bpc = "writing" /\ disk.written = Cardinality(DOMAIN disk.doc)
    /\ disk' = [disk EXCEPT !.whole = TRUE]
    /\ bpc' = "saved"
    /\ UNCHANGED ret
    /\ SaveFrame

\* Ctrl-C: KeyboardInterrupt is no Exception, the handler at 2677 does not
\* see it; the with block closes the file with what was written
Interrupt ==
    /\ bpc \in {"saving", "writing", "saved"}
    /\ bpc' = "interrupted"
    /\ UNCHANGED <<disk, ret>>
    /\ SaveFrame

\* a later run: _load_county_cache
LaterRun ==
    /\ bpc = "interrupted" /\ ~done
    /\ ret' = ReadFile(disk)
    /\ done' = TRUE
    /\ UNCHANGED <<fn, arg, disk, disk0, bpc, bstate, use_search,
                   existing_cache, discovered_cache, strategy, checked,
                   verified_count, new_counties, accepted, bresult,
                   resVars, lookVars>>

NextSave == SaveOpen \/ SaveWrite \/ SaveClose \/ Interrupt \/ LaterRun

SpecSave == InitSave /\ [][NextSave]_vars

(***************************************************************************)
(* C18  the cache file under an interrupt                                  *)
(***************************************************************************)
\* C18: if the pipeline is interrupted at any point, also while
\* _save_county_cache is writing, countyID.db holds the whole document it
\* held before or the whole new document, never a text that is cut short,
\* empty or partly written; a later run loads every entry that was in the
\* file before the interrupt.
C18_SaveAllOrNothing ==
    /\ (bpc = "interrupted" =>
          /\ disk.whole
          /\ disk.doc \in {disk0.doc, SaveCache(existing_cache)})
    /\ (done => \A k \in DOMAIN LoadCache(disk0.doc) :
                    k \in DOMAIN ret /\ ret[k] = LoadCache(disk0.doc)[k])


(***************************************************************************)
(* C21  the fields of a record                                             *)
(***************************************************************************)
\* CHIRP_COLUMNS (2149-2154)
CHIRP_COLUMNS ==
    {"Location", "Name", "Frequency", "Duplex", "Offset", "Tone",
     "rToneFreq", "cToneFreq", "DtcsCode", "DtcsPolarity", "RxDtcsCode",
     "CrossMode", "Mode", "TStep", "Skip", "Comment", "URCALL", "RPT1CALL",
     "RPT2CALL", "DVCODE"}

\* the records a producer has built so far
Produced ==
    IF fn \in {"generate_gmrs_frs_channels", "generate_noaa_weather_channels"}
    THEN ret
    ELSE IF fn = "_parse_html_response" THEN ret[2]
    ELSE IF fn = "row" /\ done THEN <<ret>>
    ELSE <<>>

\* C21: every record of every producer (_parse_html_response,
\* generate_gmrs_frs_channels, generate_noaa_weather_channels) has exactly
\* the 20 named fields, with Tone one of "No Tone", "Tone", "DTCS", Duplex
\* one of "", "+", "-", "split", and Mode one of "FM", "Digital", "DMR",
\* "NXDN".
C21_RecordFields ==
    \A i \in 1..Len(Produced) :
        /\ DOMAIN Produced[i] = CHIRP_COLUMNS
        /\ Cardinality(DOMAIN Produced[i]) = 20
        /\ Produced[i].Tone \in {"No Tone", "Tone", "DTCS"}
        /\ Produced[i].Duplex \in {"", "+", "-", "split"}
        /\ Produced[i].Mode \in {"FM", "Digital", "DMR", "NXDN"}


(***************************************************************************)
(* C22  nothing is written before the gate                                 *)
(***************************************************************************)
\* C22: no batch of county identifiers found by bulk discovery is written
\* to countyID.db before it has passed the sample verification gate, the
\* save inside _build_county_cache_for_state after the rendered page
\* included: as long as the gate has not accepted, the file is the one the
\* call found.
C22_NoWriteBeforeGate ==
    bpc \in {"start", "loaded", "verifying", "returning", "returned"}
        /\ accepted # "yes"
    => disk = disk0


(***************************************************************************)
(* C23  the heading of the candidate's page                                *)
(***************************************************************************)
\* the strategies that scrape a page of the state for candidates
ScrapeStrategies == {"scrape", "browse_links", "apps_links"}

\* C23: in the page-scrape strategies of _get_county_id a candidate is
\* returned and cached only if the heading of its own page names both the
\* state and the county asked for; a heading with the state and another
\* county, or with the county and another state, is rejected.
C23_HeadingNamesStateAndCounty ==
    \A i \in 1..Len(rtrace) :
        rtrace[i][1] \in ScrapeStrategies /\ rtrace[i][2] # None
        => rtrace[i][3].page.hasState /\ rtrace[i][3].page.hasCounty

(***************************************************************************)
(* C24  the regex sweep after the targeted scrape                          *)
(***************************************************************************)
\* C24: whenever the targeted scrape of the query page (its inline
\* ctid/name fragments) yields no verified candidate, the regex sweep of
\* the browse page is executed next; the resolver never skips it because
\* the scrape found nothing.
C24_SweepAfterScrape ==
    \A i \in 1..Len(rtrace) :
        rtrace[i][1] = "scrape" /\ rtrace[i][2] = None => rtrace[i][3].swept


(***************************************************************************)
(* C25  what a successful geocoder result verifies                         *)
(***************************************************************************)
\* the request answered 200 with a list whose first element has an
\* address dict
ResultReturned ==
    /\ Verified /\ arg[3].kind = "list" /\ arg[3].size > 0
    /\ arg[3].first = "address"

\* the names of the states asked for
StateNames == [CA |-> "California", AL |-> "Alabama"]

\* the state of the address is the state asked for: its code when the
\* address has one, otherwise its name
SameState(state, address) ==
    IF Get(address, "state_code", "") # ""
    THEN Upper(address.state_code) = Upper(state)
    ELSE /\ Get(address, "state", "") # ""
         /\ Upper(address.state) = Upper(StateNames[Upper(state)])

\* the county of the address matches the county asked for
SameCounty(county_name, address) ==
    \/ Contains(Lower(address.county), Lower(county_name))
    \/ StartsWith(Lower(address.county), Lower(county_name))

\* C25: for a successful geocoder result (status 200, not empty)
\* _verify_county_with_api returns True only if the returned state is the
\* state asked for and, when a county is returned, it matches the county
\* asked for; a result of another state (asked AL, returned California) or
\* with an empty state yields False.
C25_VerifiedMeansSameState ==
    ResultReturned /\ ret = TRUE =>
        /\ SameState(arg[2], arg[3].address)
        /\ Get(arg[3].address, "county", "") # ""
              => SameCounty(arg[1], arg[3].address)


(***************************************************************************)
(* _find_county_for_city                                                   *)
(***************************************************************************)
RECURSIVE Split(_, _)
\* str.split(sep) for a one-character sep
Split(s, sep) ==
    LET k == Find(s, sep, 1)
    IN IF k = 0 THEN <<s>>
       ELSE <<SubSeq(s, 1, k - 1)>> \o Split(SubSeq(s, k + 1, Len(s)), sep)

\* how often county occurs among the results
CountOf(results, county) ==
    Cardinality({i \in 1..Len(results) : results[i] = county})

\* lines 2472-2478: the county that most results have, the first of them
\* in the order of the results when several have as many; "" when no
\* result has a county (a result without county is "")
MostCommonCounty(results) ==
    LET named == {i \in 1..Len(results) : results[i] # ""}
    IN IF named = {} THEN ""
       ELSE results[CHOOSE i \in named :
                /\ \A j \in named :
                       CountOf(results, results[j]) <= CountOf(results, results[i])
                /\ \A j \in named :
                       j < i => CountOf(results, results[j])
                                   < CountOf(results, results[i])]

\* lines 2484-2494: the county of the web geocoder's answer, None when the
\* request raises, the status is not 200, the list is empty or the second
\* part of display_name does not contain "county"
WebCounty(web) ==
    IF web.kind # "list" \/ Len(web.names) = 0 THEN None
    ELSE LET parts == Split(web.names[1], ",")
         IN IF Len(parts) >= 2
               /\ Contains(Lower(Strip(parts[2])), "county")
            THEN Strip(Replace(Strip(parts[2]), " County", ""))
            ELSE None

\* lines 2465-2500: value is what is returned, consulted whether the web
\* geocoder was requested
_find_county_for_city(dataset, web) ==
    IF dataset.kind = "raises"
    THEN [value |-> WebCounty(web), consulted |-> TRUE]
    ELSE IF MostCommonCounty(dataset.results) # ""
    THEN [value |-> MostCommonCounty(dataset.results), consulted |-> FALSE]
    ELSE [value |-> None, consulted |-> FALSE]

\* the counties of the results of the offline dataset, at most MaxResults
MaxResults == 2

DatasetCounties == {"", "King County", "Pierce County"}

\* uszipcode is not installed or its search raises, or it gives results
DatasetAnswers ==
    {[kind |-> "raises"]}
    \cup {[kind |-> "results", results |-> r] :
             r \in UNION {[1..n -> DatasetCounties] : n \in 0..MaxResults}}

\* the display names of the web geocoder
DisplayNames ==
    {"Seattle, King County, Washington, United States",
     "Seattle, Downtown, King County, Washington",
     "King County, Washington",
     "Seattle, Washington",
     "Seattle"}

\* the request raises, answers another status than 200, or gives a list
WebAnswers ==
    {[kind |-> "raises"], [kind |-> "status"],
     [kind |-> "list", names |-> <<>>]}
    \cup {[kind |-> "list", names |-> <<d>>] : d \in DisplayNames}

\* arg = <<dataset answer, web answer>>
InitCounty ==
    /\ PureIdle("_find_county_for_city")
    /\ arg \in DatasetAnswers \X WebAnswers

FindCountyForCity ==
    /\ fn = "_find_county_for_city" /\ ~done
    /\ ret' = _find_county_for_city(arg[1], arg[2])
    /\ done' = TRUE
    /\ UNCHANGED <<fn, arg, buildVars, resVars, lookVars>>

NextCounty == FindCountyForCity

SpecCounty == InitCounty /\ [][NextCounty]_vars

(***************************************************************************)
(* C26  the web geocoder is the fallback of the offline dataset            *)
(***************************************************************************)
CountyReturned == fn = "_find_county_for_city" /\ done

\* the offline dataset yields no county: it is absent or raises, it has no
\* result, or no result has a county
NoDatasetCounty ==
    \/ arg[1].kind = "raises"
    \/ arg[1].kind = "results" /\ \A i \in 1..Len(arg[1].results) :
                                      arg[1].results[i] = ""

\* the parts of the display name that contain "county"
CountyParts ==
    IF arg[2].kind = "list" /\ Len(arg[2].names) > 0
    THEN LET parts == Split(arg[2].names[1], ",")
         IN {Strip(parts[i]) : i \in {j \in 1..Len(parts) :
                 Contains(Lower(parts[j]), "county")}}
    ELSE {}

\* C26: _find_county_for_city consults the free-text geocoding API whenever
\* the offline dataset yields no county (absent or raising, and also
\* answering with no result or no county field), and only then returns
\* None; the county is the comma-separated part of the returned address
\* that contains "county", whichever part that is.
C26_WebFallback ==
    CountyReturned /\ NoDatasetCounty =>
        /\ ret.consulted
        /\ CountyParts # {} =>
              ret.value \in {Strip(Replace(p, " County", "")) : p \in CountyParts}


(***************************************************************************)
(* the requests of the loops and the pauses between them                   *)
(***************************************************************************)
RECURSIVE SampleEvents(_)
\* lines 3412-3417: one call of the verifier per sampled pair, and
\* time.sleep(1) in the branch of a pair that it verified; outcomes[i] is
\* what the verifier returns for the i-th pair
SampleEvents(outcomes) ==
    IF Len(outcomes) = 0 THEN <<>>
    ELSE <<"verify">> \o (IF Head(outcomes) THEN <<"sleep">> ELSE <<>>)
         \o SampleEvents(Tail(outcomes))

RECURSIVE ScrapeEvents(_)
\* lines 3628-3638: one request per candidate of the query page, until one
\* is taken (break) or a request raises (the block is left)
ScrapeEvents(cands) ==
    IF Len(cands) = 0 THEN <<>>
    ELSE <<"fetch">>
         \o (IF Head(cands).status = "timeout"
                \/ (Head(cands).status = "200" /\ Head(cands).hasState)
             THEN <<>> ELSE ScrapeEvents(Tail(cands)))

RECURSIVE ProbeEvents(_)
\* lines 3060-3075: time.sleep(0.3) and one request per option of the
\* query page that names the county, until one is taken or a request
\* raises
ProbeEvents(cands) ==
    IF Len(cands) = 0 THEN <<>>
    ELSE <<"sleep", "fetch">>
         \o (IF Head(cands).status = "timeout"
                \/ (Head(cands).status = "200" /\ Head(cands).hasState
                    /\ Head(cands).hasCounty)
             THEN <<>> ELSE ProbeEvents(Tail(cands)))

\* what the verifier returns for the pairs of a sample
SampleOutcomes == UNION {[1..n -> BOOLEAN] : n \in 0..SampleLimit}

\* arg = <<what the requests of the loop give>>, ret the events of the loop
\* in their order
InitPacing ==
    \/ PureIdle("sample_counties") /\ arg \in {<<o>> : o \in SampleOutcomes}
    \/ PureIdle("ctid_name_patterns")
       /\ arg \in {<<c>> : c \in CandidateLists}
    \/ PureIdle("options") /\ arg \in {<<c>> : c \in CandidateLists}

VerifySample ==
    /\ fn = "sample_counties" /\ ~done
    /\ ret' = SampleEvents(arg[1])
    /\ done' = TRUE
    /\ UNCHANGED <<fn, arg, buildVars, resVars, lookVars>>

ScrapeCandidates ==
    /\ fn = "ctid_name_patterns" /\ ~done
    /\ ret' = ScrapeEvents(arg[1])
    /\ done' = TRUE
    /\ UNCHANGED <<fn, arg, buildVars, resVars, lookVars>>

ProbeOptions ==
    /\ fn = "options" /\ ~done
    /\ ret' = ProbeEvents(arg[1])
    /\ done' = TRUE
    /\ UNCHANGED <<fn, arg, buildVars, resVars, lookVars>>

NextPacing == VerifySample \/ ScrapeCandidates \/ ProbeOptions

SpecPacing == InitPacing /\ [][NextPacing]_vars

(***************************************************************************)
(* C27  a pause between consecutive requests                               *)
(***************************************************************************)
LoopEnded == fn \in {"sample_counties", "ctid_name_patterns", "options"} /\ done

\* between any two events of the kind there is a pause
Paced(events, kind) ==
    \A i, j \in 1..Len(events) :
        i < j /\ events[i] = kind /\ events[j] = kind
            => \E k \in (i + 1)..(j - 1) : events[k] = "sleep"

\* C27: requests are issued one at a time with a pause between consecutive
\* requests of the same kind: a pause of one second between any two
\* consecutive calls of the verifier, whatever the first returned, and a
\* pause between any two consecutive requests of ctid pages.
C27_PausedRequests ==
    LoopEnded => Paced(ret, "verify") /\ Paced(ret, "fetch")


(***************************************************************************)
(* _extract_counties_with_playwright and the nearby identifiers            *)
(***************************************************************************)
\* state_names_map sorted by the length of the name, longest first
\* (2940-2954); of its 51 names those that the pages below can show
sorted_states ==
    <<<<"WEST VIRGINIA", "WV">>, <<"VIRGINIA", "VA">>, <<"OREGON", "OR">>>>

\* lines 2926-2965: the abbreviation of the first name of sorted_states that
\* page_info contains, the state asked for when it contains none
ActualState(page_info, state) ==
    LET found == {i \in 1..Len(sorted_states) :
                     Contains(page_info, sorted_states[i][1])}
    IN IF found = {} THEN Upper(state)
       ELSE sorted_states[CHOOSE i \in found : \A j \in found : i <= j][2]

RECURSIVE CountyEntries(_, _, _)
\* lines 2968-2974: discovered_counties[(name.lower(), state.lower())] =
\* str(id) for every item with a name and an id, a later item replacing an
\* earlier one of the same key
CountyEntries(counties_data, actual_state, discovered_counties) ==
    IF Len(counties_data) = 0 THEN discovered_counties
    ELSE LET county_name == Strip(Head(counties_data).name)
             county_id == Head(counties_data).id
         IN CountyEntries(Tail(counties_data), actual_state,
                IF county_name # "" /\ county_id # ""
                THEN Update(discovered_counties,
                            (<<Lower(county_name), Lower(actual_state)>>
                                 :> county_id))
                ELSE discovered_counties)

\* lines 2756-3003: {} when the rendering raises or the page shows another
\* state, otherwise the entries of the page
_extract_counties_with_playwright(page, state) ==
    IF page.kind = "raises" THEN EmptyCache
    ELSE IF ActualState(page.page_info, state) # Upper(state) THEN EmptyCache
    ELSE CountyEntries(page.counties_data, ActualState(page.page_info, state),
                       EmptyCache)

\* a variant of the offsets that does not leave out the identifier itself
NearbyOffsets_withzero == -10..10

\* line 3106-3108: range(-10, 11) without 0
NearbyOffsets == (-10..10) \ {0}

\* k[1].upper() of the keys of a mapping
DetectedStates(counties) == {Upper(k[2]) : k \in DOMAIN counties}

RECURSIVE NearbyFrom(_, _, _, _)
\* lines 3106-3123 from offset on: the identifiers base_id + offset are
\* rendered in ascending order, those not above 0 left out, up to the first
\* whose mapping is not empty and of the state; result is what
\* discovered_counties is bound to, probes the identifiers rendered
NearbyFrom(offset, base_id, state, pageAt) ==
    IF offset > 10 THEN [result |-> EmptyCache, probes |-> <<>>]
    ELSE IF offset \notin NearbyOffsets \/ base_id + offset <= 0
    THEN NearbyFrom(offset + 1, base_id, state, pageAt)
    ELSE LET test_counties ==
                 _extract_counties_with_playwright(pageAt[base_id + offset],
                                                   state)
             rest == NearbyFrom(offset + 1, base_id, state, pageAt)
         IN IF test_counties # EmptyCache
               /\ DetectedStates(test_counties) = {Upper(state)}
            THEN [result |-> test_counties, probes |-> <<base_id + offset>>]
            ELSE [result |-> rest.result,
                  probes |-> <<base_id + offset>> \o rest.probes]

\* lines 3099-3123: the page of the identifier, and the nearby identifiers
\* when it gives nothing
RenderedDiscovery(base_id, state, pageAt) ==
    LET discovered_counties ==
            _extract_counties_with_playwright(pageAt[base_id], state)
    IN IF discovered_counties # EmptyCache
       THEN [result |-> discovered_counties, probes |-> <<>>]
       ELSE NearbyFrom(-10, base_id, state, pageAt)

\* what the rendered page of an identifier may be: the rendering raises, or
\* a page with its text and the items of its county dropdown
PageInfos ==
    {"VIRGINIA COUNTIES", "WEST VIRGINIA COUNTIES", "COUNTIES",
     "OREGON AND VIRGINIA"}

CountyItems ==
    {<<>>,
     <<[name |-> "Fairfax", id |-> "2901"]>>,
     <<[name |-> "Fairfax", id |-> "2901"], [name |-> " Kanawha ", id |-> "3001"],
       [name |-> "", id |-> "7"], [name |-> "FAIRFAX", id |-> "2902"]>>}

RenderedPages ==
    {[kind |-> "raises"]}
    \cup {[kind |-> "page", page_info |-> t, counties_data |-> c] :
             t \in PageInfos, c \in CountyItems}

RenderedStates == {"VA", "va", "WV"}

\* the dropdown identifiers asked for; the pages of the identifiers around
\* one of them are all alike but for at most two
BaseIds == {3, 46}

PagesAround(base_id) ==
    {[id \in (base_id - 10)..(base_id + 10) |->
         IF id \in special THEN there ELSE elsewhere] :
        special \in {{}, {base_id}, {base_id - 2}, {base_id + 10},
                     {base_id - 2, base_id + 1}},
        there \in {[kind |-> "page", page_info |-> "VIRGINIA COUNTIES",
                    counties_data |-> <<[name |-> "Fairfax", id |-> "2901"]>>],
                   [kind |-> "page", page_info |-> "COUNTIES",
                    counties_data |-> <<[name |-> "Kanawha", id |-> "3001"]>>]},
        elsewhere \in {[kind |-> "raises"],
                       [kind |-> "page", page_info |-> "OREGON AND VIRGINIA",
                        counties_data |-> <<[name |-> "Baker", id |-> "2201"]>>],
                       [kind |-> "page", page_info |-> "VIRGINIA COUNTIES",
                        counties_data |-> <<>>]}}

\* arg = <<page, state>> for the extraction of one page,
\* <<base_id, state, pageAt>> for the discovery
InitRendered ==
    \/ /\ PureIdle("_extract_counties_with_playwright")
       /\ arg \in RenderedPages \X RenderedStates
    \/ /\ PureIdle("_build_county_cache_for_state")
       /\ \E base_id \in BaseIds :
             arg \in {base_id} \X RenderedStates \X PagesAround(base_id)

ExtractCounties ==
    /\ fn = "_extract_counties_with_playwright" /\ ~done
    /\ ret' = _extract_counties_with_playwright(arg[1], arg[2])
    /\ done' = TRUE
    /\ UNCHANGED <<fn, arg, buildVars, resVars, lookVars>>

DiscoverNearby ==
    /\ fn = "_build_county_cache_for_state" /\ ~done
    /\ ret' = RenderedDiscovery(arg[1], arg[2], arg[3])
    /\ done' = TRUE
    /\ UNCHANGED <<fn, arg, buildVars, resVars, lookVars>>

NextRendered == ExtractCounties \/ DiscoverNearby

SpecRendered == InitRendered /\ [][NextRendered]_vars


(***************************************************************************)
(* C28  rendered pages of another state and the nearby identifiers         *)
(***************************************************************************)
Extracted == fn = "_extract_counties_with_playwright" /\ done

Discovered == fn = "_build_county_cache_for_state" /\ done

\* the identifiers around base_id that may be rendered
NearbyIds(base_id) ==
    {id \in (base_id - 10)..(base_id + 10) : id # base_id /\ id > 0}

\* the page of the identifier gives entries of the state
GivesCounties(id) ==
    _extract_counties_with_playwright(arg[3][id], arg[2]) # EmptyCache

\* the keys of the mapping are all of the state
OnlyOfState(counties, state) ==
    \A k \in DOMAIN counties : k[2] = Lower(state)

\* C28: rendered-page discovery returns no entry from a page whose
\* detected state differs from the state asked for:
\* _extract_counties_with_playwright returns the empty mapping then, and
\* otherwise only keys of the state asked for. The retry over the nearby
\* identifiers renders the offsets -10..+10 without 0 in ascending order,
\* leaves out identifiers that are not positive, renders at most 20 pages
\* and stops at the first that gives a non-empty mapping of the state.
C28_RenderedOfRequestedState ==
    /\ Extracted =>
          /\ arg[1].kind = "page"
                /\ ActualState(arg[1].page_info, arg[2]) # Upper(arg[2])
                => ret = EmptyCache
          /\ OnlyOfState(ret, arg[2])
    /\ Discovered =>
          LET probes == ret.probes
              rendered == {probes[i] : i \in 1..Len(probes)}
          IN /\ OnlyOfState(ret.result, arg[2])
             /\ Len(probes) <= 20
             /\ rendered \subseteq NearbyIds(arg[1])
             /\ \A i, j \in 1..Len(probes) : i < j => probes[i] < probes[j]
             /\ GivesCounties(arg[1]) => probes = <<>>
             /\ \A i \in 1..(Len(probes) - 1) : ~GivesCounties(probes[i])
             /\ IF ret.result # EmptyCache /\ probes # <<>>
                THEN /\ GivesCounties(probes[Len(probes)])
                     /\ ret.result = _extract_counties_with_playwright(
                                         arg[3][probes[Len(probes)]], arg[2])
                     /\ rendered = {id \in NearbyIds(arg[1]) :
                                       id <= probes[Len(probes)]}
                ELSE IF ret.result = EmptyCache
                THEN /\ ~GivesCounties(arg[1])
                     /\ rendered = NearbyIds(arg[1])
                     /\ \A id \in rendered : ~GivesCounties(id)
                ELSE ret.result = _extract_counties_with_playwright(
                                      arg[3][arg[1]], arg[2])

\* the retry left out the identifiers that are not positive and stopped at
\* the last nearby identifier, the first to give counties of the state
C28_Witness ==
    /\ Discovered /\ arg[1] = 3 /\ ret.result # EmptyCache
    /\ Len(ret.probes) = 12 /\ ret.probes[1] = 1 /\ ret.probes[12] = 13


(***************************************************************************)
(* C29  identifiers on disk are kept                                       *)
(***************************************************************************)
\* C29: an identifier that countyID.db holds for a key is never replaced by
\* another identifier by a later bulk discovery: when
\* build_county_cache_for_state has returned, whether the gate accepted or
\* rejected the batch, every key that the file held before the call is
\* still there with the same identifier.
C29_PersistedIdentifierKept ==
    BuildReturned =>
        \A k \in DOMAIN LoadCache(disk0) :
            /\ k \in DOMAIN LoadCache(disk)
            /\ LoadCache(disk)[k] = LoadCache(disk0)[k]


(***************************************************************************)
(* C30  build_county_cache_for_state without search                        *)
(***************************************************************************)
\* C30: build_county_cache_for_state(state, use_search=False) performs no
\* discovery and no request, leaves the cache as it is, and returns the
\* number of counties that the cache holds for the state, without raising;
\* for an invalid state it returns 0.
C30_NoSearchCounts ==
    BuildReturned /\ ~use_search =>
        /\ strategy = {} /\ discovered_cache = EmptyCache
        /\ disk = disk0
        /\ bresult =
              <<"return",
                IF StateId(bstate) = "" THEN 0
                ELSE Cardinality(OfState(LoadCache(disk0), Lower(bstate)))>>

====
